---- MODULE Spec2Model ----
(***************************************************************************)
(* A model of tools/score2bas.py (NovaVM): the MIDI-to-NovaBASIC           *)
(* transpiler.  Three specifications share this module:                    *)
(*                                                                         *)
(*   SpecParse   parse_midi run on a byte buffer, one action per step of   *)
(*               the decoder (header, track chunk header, one event of the *)
(*               track loop, end of track, end of file), and main's        *)
(*               exception handler around it;                              *)
(*   SpecOnsets  select_monophonic_onsets, one action per loop iteration;  *)
(*   Spec        main after decoding: parse_channel_list, the empty-song   *)
(*               check, choose_voice_channels, emit_basic, the write.      *)
(*                                                                         *)
(* Bytes are 0..255, offsets are 0-based as in the source; a Python slice  *)
(* s[a:b] is Slice(s, a, b).                                               *)
(***************************************************************************)
EXTENDS Integers, Sequences, FiniteSets, TLC

VARIABLES
    \* ---- parse_midi (SpecParse)
    data,            \* the bytes of the input file
    pc,              \* position of the run
    err,             \* the exception raised, "none" while there is none
    offset,          \* parse_midi: offset
    ppqn,            \* parse_midi: ppqn
    track_count,     \* parse_midi: track_count
    track_index,     \* parse_midi: _track_index
    track,           \* parse_midi: track (the bytes of the current chunk)
    pos,             \* parse_midi: pos
    tick,            \* parse_midi: tick
    running_status,  \* parse_midi: running_status, None is -1
    active,          \* parse_midi: active, in key insertion order
    notes,           \* parse_midi: notes / song.notes
    tempos,          \* parse_midi: tempos / song.tempos
    time_signature,  \* parse_midi: time_signature
    song_end_tick,   \* parse_midi: song_end_tick / song.end_tick
    overrun,         \* history: a declared length exceeded the bytes left
    vlq_value,       \* read_vlq: value
    \* ---- main and emit_basic (Spec)
    caller,          \* who calls emit_basic: "main", or "direct" for a call
                     \* of the function on its own
    args,            \* the command line (parse_args), or emit_basic's arguments
    explicit_channels,  \* main: explicit_channels, None is <<>>
    voice_channels,  \* main: voice_channels
    events,          \* emit_basic: events
    lines,           \* emit_basic: lines
    output,          \* the lines written to args.output
    \* ---- select_monophonic_onsets (SpecOnsets)
    sel_channel,     \* select_monophonic_onsets: channel
    sorted_notes,    \* the list the loop of line 336 walks
    note_index,      \* how many of its notes the loop has taken
    onsets,          \* select_monophonic_onsets: onsets
    \* ---- the NovaBASIC player running the written program (SpecPlayer)
    player_line,     \* index in output of the line to execute, 0 when off
    player_state,    \* "off", "running", "ended" (END) or "stopped"
    data_store,      \* the DATA items of the program, gathered at RUN
    data_ptr,        \* DATA items consumed by READ
    basic,           \* the values of W,T,F0,D0,... after the last READ
    rows_read        \* history: the rows READ has delivered

decodeVars == <<data, offset, track_count, track_index, track, pos, tick,
                running_status, active, overrun, vlq_value>>
songVars == <<ppqn, notes, tempos, time_signature, song_end_tick>>
mainVars == <<caller, args, explicit_channels, voice_channels, events, lines,
              output>>
onsetVars == <<sel_channel, sorted_notes, note_index, onsets>>
playerVars == <<player_line, player_state, data_store, data_ptr, basic,
                rows_read>>
vars == <<pc, err, decodeVars, songVars, mainVars, onsetVars, playerVars>>

----------------------------------------------------------------------------
(* Bounds of the model. *)

\* longest track body, in events, of the note-only input family
MaxNoteEvents == 4
\* longest track body, in events, of the two-track input family
MaxEvents == 2

----------------------------------------------------------------------------
(* Python helpers. *)

Min(a, b) == IF a < b THEN a ELSE b
Max(a, b) == IF a > b THEN a ELSE b

\* s[a:b] for 0 <= a, 0 <= b
Slice(s, a, b) == SubSeq(s, a + 1, Min(b, Len(s)))

None == -1

\* struct.unpack_from(">I", s, off)[0]; the caller checks off + 4 <= len(s)
U32(s, off) ==
    ((s[off + 1] * 256 + s[off + 2]) * 256 + s[off + 3]) * 256 + s[off + 4]

\* one field of struct.unpack_from(">HHH", s, off)
U16(s, off) == s[off + 1] * 256 + s[off + 2]

\* struct.unpack_from(fmt, s, off) raises struct.error unless the buffer
\* holds size bytes from off
UnpackFits(s, off, size) == off + size <= Len(s)

MThd == <<77, 84, 104, 100>>
MTrk == <<77, 84, 114, 107>>

RECURSIVE Pow2(_)
Pow2(n) == IF n = 0 THEN 1 ELSE 2 * Pow2(n - 1)

\* int(round(a / b)) for a >= 0, b > 0: Python rounds a tie to the even integer
RoundDiv(a, b) ==
    LET q == a \div b
        r == a % b
    IN  IF 2 * r < b THEN q
        ELSE IF 2 * r > b THEN q + 1
        ELSE IF q % 2 = 0 THEN q ELSE q + 1

----------------------------------------------------------------------------
(* read_vlq *)

RECURSIVE read_vlq_loop(_, _, _)
read_vlq_loop(s, off, value) ==
    IF off >= Len(s)
    THEN [ok |-> FALSE, value |-> value, offset |-> off]
    ELSE LET byte == s[off + 1]
             v    == value * 128 + (byte % 128)
         IN  IF byte < 128
             THEN [ok |-> TRUE, value |-> v, offset |-> off + 1]
             ELSE read_vlq_loop(s, off + 1, v)

\* a read of one byte only, in place of the loop of lines 78-85
ReadVlqOneByte(s, off) ==
    IF off >= Len(s) THEN [ok |-> FALSE, value |-> 0, offset |-> off]
    ELSE [ok |-> TRUE, value |-> s[off + 1] % 128, offset |-> off + 1]

\* ok = FALSE stands for MidiParseError("Unexpected EOF while reading VLQ")
read_vlq(s, off) == read_vlq_loop(s, off, 0)

----------------------------------------------------------------------------
(* parse_midi: the open-note stacks.  active is a dict in Python; its keys *)
(* keep their insertion order, which the end-of-track loop walks.          *)

RECURSIVE ActiveIndexFrom(_, _, _, _)
ActiveIndexFrom(act, channel, note, i) ==
    IF i > Len(act) THEN 0
    ELSE IF act[i].channel = channel /\ act[i].note = note THEN i
    ELSE ActiveIndexFrom(act, channel, note, i + 1)

\* the place of key (channel, note) in active, 0 when it is absent
ActiveIndex(act, channel, note) == ActiveIndexFrom(act, channel, note, 1)

\* active[key].append((tick, velocity))
ActivePush(act, channel, note, t, velocity) ==
    LET i == ActiveIndex(act, channel, note)
    IN  IF i = 0
        THEN Append(act, [channel |-> channel, note |-> note,
                          stack |-> << <<t, velocity>> >>])
        ELSE [act EXCEPT ![i].stack = Append(@, <<t, velocity>>)]

\* a queue in place of the stack: the oldest open entry
PopOldest(stack) == stack[1]

\* stack.pop(): the entry taken off a non-empty stack
PopEntry(stack) == stack[Len(stack)]

\* stack.pop(): what is left of the stack
PopRest(stack) == SubSeq(stack, 1, Len(stack) - 1)

NoteEvent(start_tick, end_tick, channel, note, velocity) ==
    [start_tick |-> start_tick, end_tick |-> end_tick, channel |-> channel,
     note |-> note, velocity |-> velocity]

\* lines 203-216 with the entry left open when the note-off comes at the tick
\* the entry was opened
NoteOffKeeping(st, channel, note, t) ==
    LET i == ActiveIndex(st.active, channel, note)
    IN  IF i = 0 \/ st.active[i].stack = <<>>
        THEN st
        ELSE LET e == PopEntry(st.active[i].stack)
             IN  IF t > e[1]
                 THEN [st EXCEPT !.active[i].stack = PopRest(@),
                                 !.notes = Append(@, NoteEvent(e[1], t, channel,
                                                               note, e[2]))]
                 ELSE st

\* lines 203-216: a note-off, or a note-on of velocity 0, at tick t
NoteOff(st, channel, note, t) ==
    LET i == ActiveIndex(st.active, channel, note)
    IN  IF i = 0 \/ st.active[i].stack = <<>>
        THEN st
        ELSE LET e == PopEntry(st.active[i].stack)
                 a == [st.active EXCEPT ![i].stack = PopRest(@)]
             IN  IF t > e[1]
                 THEN [st EXCEPT !.active = a,
                                 !.notes = Append(@, NoteEvent(e[1], t, channel, note, e[2]))]
                 ELSE [st EXCEPT !.active = a]

\* lines 218-229 for one stack, without the test of line 220
RECURSIVE CloseStackAll(_, _, _, _, _)
CloseStackAll(stack, i, channel, note, t) ==
    IF i > Len(stack) THEN <<>>
    ELSE <<NoteEvent(stack[i][1], t, channel, note, stack[i][2])>>
         \o CloseStackAll(stack, i + 1, channel, note, t)

\* lines 218-229 for one stack: the entries from the bottom up
RECURSIVE CloseStack(_, _, _, _, _)
CloseStack(stack, i, channel, note, t) ==
    IF i > Len(stack) THEN <<>>
    ELSE (IF t > stack[i][1]
          THEN <<NoteEvent(stack[i][1], t, channel, note, stack[i][2])>>
          ELSE <<>>)
         \o CloseStack(stack, i + 1, channel, note, t)

\* lines 218-229: the notes appended when the track loop has ended at tick t
RECURSIVE CloseActive(_, _, _)
CloseActive(act, i, t) ==
    IF i > Len(act) THEN <<>>
    ELSE CloseStack(act[i].stack, 1, act[i].channel, act[i].note, t)
         \o CloseActive(act, i + 1, t)

----------------------------------------------------------------------------
(* parse_midi: one iteration of the track loop, lines 139-216.  st holds   *)
(* the loop's variables; the result names how the iteration ends:          *)
(* "continue", "break", or the exception it raises.                        *)

Outcome(kind, st) == [outcome |-> kind, st |-> st]

\* lines 165-169: a tempo meta-event
TempoMeta(st, meta_data) ==
    LET us_per_quarter == (meta_data[1] * 256 + meta_data[2]) * 256 + meta_data[3]
    IN  IF us_per_quarter > 0
        THEN [st EXCEPT !.tempos =
                 Append(@, [tick |-> st.tick,
                            bpm |-> Max(1, RoundDiv(60000000, us_per_quarter))])]
        ELSE st

\* a time signature whose numerator byte is 0 is passed over
TimeSigDefaulting(st, meta_data) ==
    IF meta_data[1] = 0 THEN st
    ELSE [st EXCEPT !.time_signature =
             [numerator |-> meta_data[1], denominator |-> Pow2(meta_data[2])]]

\* lines 170-174: a time signature meta-event
TimeSigMeta(st, meta_data) ==
    LET numerator   == Max(1, meta_data[1])
        denominator == Pow2(meta_data[2])
    IN  IF denominator > 0
        THEN [st EXCEPT !.time_signature =
                 [numerator |-> numerator, denominator |-> denominator]]
        ELSE st

\* lines 156-178: status 0xFF, st.pos just past the status byte
MetaEvent(trk, st) ==
    IF st.pos >= Len(trk) THEN Outcome("MidiParseError", st)
    ELSE
    LET meta_type == trk[st.pos + 1]
        vl        == read_vlq(trk, st.pos + 1)
    IN  IF ~vl.ok THEN Outcome("MidiParseError", st)
        ELSE
        LET meta_len  == vl.value
            meta_data == Slice(trk, vl.offset, vl.offset + meta_len)
            s1 == [st EXCEPT !.pos = vl.offset + meta_len,
                             !.overrun = @ \/ (vl.offset + meta_len > Len(trk))]
        IN  IF meta_type = 81 /\ Len(meta_data) = 3
            THEN Outcome("continue", TempoMeta(s1, meta_data))
            ELSE IF meta_type = 88 /\ Len(meta_data) >= 2
            THEN Outcome("continue", TimeSigMeta(s1, meta_data))
            ELSE IF meta_type = 47
            THEN Outcome("break", s1)
            ELSE Outcome("continue", s1)

\* lines 180-183: status 0xF0 or 0xF7
SysexEvent(trk, st) ==
    LET vl == read_vlq(trk, st.pos)
    IN  IF ~vl.ok THEN Outcome("MidiParseError", st)
        ELSE Outcome("continue",
                     [st EXCEPT !.pos = vl.offset + vl.value,
                                !.overrun = @ \/ (vl.offset + vl.value > Len(trk))])

\* lines 185-216: a channel event
ChannelEvent(trk, st, status) ==
    LET event_type == (status \div 16) * 16
        channel    == status % 16
    IN  IF event_type \in {192, 208}
        THEN IF st.pos >= Len(trk)
             THEN Outcome("MidiParseError", st)
             ELSE Outcome("continue", [st EXCEPT !.pos = @ + 1])
        ELSE IF st.pos + 1 >= Len(trk)
        THEN Outcome("MidiParseError", st)
        ELSE
        LET data1 == trk[st.pos + 1]
            data2 == trk[st.pos + 2]
            s1    == [st EXCEPT !.pos = @ + 2]
        IN  IF event_type = 144 /\ data2 > 0
            THEN Outcome("continue",
                         [s1 EXCEPT !.active =
                             ActivePush(@, channel, data1, st.tick, data2)])
            ELSE IF event_type = 128 \/ (event_type = 144 /\ data2 = 0)
            THEN Outcome("continue", NoteOff(s1, channel, data1, st.tick))
            ELSE Outcome("continue", s1)

\* lines 156-216: the dispatch on the status byte
Dispatch(trk, st, status) ==
    IF status = 255 THEN MetaEvent(trk, st)
    ELSE IF status \in {240, 247} THEN SysexEvent(trk, st)
    ELSE ChannelEvent(trk, st, status)

\* lines 146-154 with a meta or system-exclusive status ending the running
\* status
StatusByteCancelling(trk, st) ==
    LET status == trk[st.pos + 1]
    IN  IF status >= 128
        THEN Dispatch(trk,
                      [st EXCEPT !.pos = @ + 1,
                                 !.running_status =
                                     IF status < 240 THEN status ELSE None],
                      status)
        ELSE IF st.running_status = None
        THEN Outcome("MidiParseError", st)
        ELSE Dispatch(trk, st, st.running_status)

\* lines 146-154 with a data byte taken as the data of a note-on of channel 0
\* when there is no running status
StatusByteLenient(trk, st) ==
    LET status == trk[st.pos + 1]
    IN  IF status >= 128
        THEN Dispatch(trk,
                      [st EXCEPT !.pos = @ + 1,
                                 !.running_status =
                                     IF status < 240 THEN status ELSE @],
                      status)
        ELSE Dispatch(trk, st, IF st.running_status = None THEN 144
                               ELSE st.running_status)

\* lines 146-154: the status byte, or the running status
StatusByte(trk, st) ==
    LET status == trk[st.pos + 1]
    IN  IF status >= 128
        THEN Dispatch(trk,
                      [st EXCEPT !.pos = @ + 1,
                                 !.running_status =
                                     IF status < 240 THEN status ELSE @],
                      status)
        ELSE IF st.running_status = None
        THEN Outcome("MidiParseError", st)
        ELSE Dispatch(trk, st, st.running_status)

\* lines 140-216: one iteration
DecodeOne(trk, st) ==
    LET vl == read_vlq(trk, st.pos)
    IN  IF ~vl.ok THEN Outcome("MidiParseError", st)
        ELSE
        LET s1 == [st EXCEPT !.pos = vl.offset, !.tick = @ + vl.value]
        IN  IF s1.pos >= Len(trk)
            THEN Outcome("break", s1)
            ELSE StatusByte(trk, s1)

\* lines 139-216: the track loop from state st on
RECURSIVE TrackLoop(_, _)
TrackLoop(trk, st) ==
    IF st.pos >= Len(trk) THEN Outcome("break", st)
    ELSE LET r == DecodeOne(trk, st)
         IN  IF r.outcome = "continue" THEN TrackLoop(trk, r.st) ELSE r

----------------------------------------------------------------------------
(* parse_midi: lines 233-240, the tempo list of the song. *)

\* the loop of lines 238-239 keeping the first tempo of a tick
RECURSIVE TempoByTickFirst(_, _, _)
TempoByTickFirst(ts, i, m) ==
    IF i > Len(ts) THEN m
    ELSE TempoByTickFirst(ts, i + 1,
                          [t \in DOMAIN m \cup {ts[i].tick} |->
                              IF t \in DOMAIN m THEN m[t] ELSE ts[i].bpm])

\* tempo_by_tick after the loop of lines 238-239 over tempos[i..]
RECURSIVE TempoByTick(_, _, _)
TempoByTick(ts, i, m) ==
    IF i > Len(ts) THEN m
    ELSE TempoByTick(ts, i + 1,
                     [t \in DOMAIN m \cup {ts[i].tick} |->
                         IF t = ts[i].tick THEN ts[i].bpm ELSE m[t]])

EmptyMap == [t \in {} |-> 0]

\* sorted(m.items()) as TempoEvents, ascending by tick
RECURSIVE SortedTempos(_)
SortedTempos(m) ==
    IF DOMAIN m = {} THEN <<>>
    ELSE LET t == CHOOSE x \in DOMAIN m : \A y \in DOMAIN m : x <= y
         IN  <<[tick |-> t, bpm |-> m[t]]>>
             \o SortedTempos([y \in DOMAIN m \ {t} |-> m[y]])

FinalTempos(ts) ==
    LET t1 == IF ts = <<>> THEN <<[tick |-> 0, bpm |-> 120]>> ELSE ts
    IN  SortedTempos(TempoByTick(t1, 1, EmptyMap))

----------------------------------------------------------------------------
(* select_monophonic_onsets, lines 329-356. *)

\* a sort key of (start_tick, note, end_tick) in place of line 336's
KeyByPitch(a, b) ==
    \/ a.start_tick < b.start_tick
    \/ /\ a.start_tick = b.start_tick
       /\ \/ a.note < b.note
          \/ a.note = b.note /\ a.end_tick < b.end_tick

\* the sort key of line 336, compared as Python compares tuples
KeyLess(a, b) ==
    \/ a.start_tick < b.start_tick
    \/ /\ a.start_tick = b.start_tick
       /\ \/ a.end_tick < b.end_tick
          \/ a.end_tick = b.end_tick /\ a.note < b.note

\* s with x put after the last element whose key is not greater than x's
RECURSIVE InsertSorted(_, _)
InsertSorted(s, x) ==
    IF s = <<>> THEN <<x>>
    ELSE IF KeyLess(x, s[Len(s)])
    THEN Append(InsertSorted(SubSeq(s, 1, Len(s) - 1), x), s[Len(s)])
    ELSE Append(s, x)

\* sorted(ns, key=...): a stable sort, notes of equal key keep their order
RECURSIVE SortedNotes(_)
SortedNotes(ns) ==
    IF ns = <<>> THEN <<>>
    ELSE InsertSorted(SortedNotes(SubSeq(ns, 1, Len(ns) - 1)), ns[Len(ns)])

\* the comparisons of lines 345-351 the other way round
PickInverted(chord_policy, note, existing) ==
    IF chord_policy = "high" THEN note.note < existing.note
    ELSE IF chord_policy = "low" THEN note.note > existing.note
    ELSE FALSE

\* lines 345-351: whether note replaces the note recorded at its tick
Pick(chord_policy, note, existing) ==
    IF chord_policy = "high" THEN note.note > existing.note
    ELSE IF chord_policy = "low" THEN note.note < existing.note
    ELSE FALSE

\* onsets with note recorded at its start tick
Record(ons, note) ==
    [t \in DOMAIN ons \cup {note.start_tick} |->
        IF t = note.start_tick THEN note ELSE ons[t]]

\* lines 337-354: the body of the loop for one note
OnsetStep(ons, note, channel, chord_policy) ==
    IF note.channel # channel THEN ons
    ELSE IF note.start_tick \notin DOMAIN ons THEN Record(ons, note)
    ELSE IF Pick(chord_policy, note, ons[note.start_tick]) THEN Record(ons, note)
    ELSE ons

NoOnsets == [t \in {} |-> 0]

\* the loop of line 336 over sorted_notes[i..]
RECURSIVE OnsetLoop(_, _, _, _, _)
OnsetLoop(sorted, i, ons, channel, chord_policy) ==
    IF i > Len(sorted) THEN ons
    ELSE OnsetLoop(sorted, i + 1,
                   OnsetStep(ons, sorted[i], channel, chord_policy),
                   channel, chord_policy)

select_monophonic_onsets(ns, channel, chord_policy) ==
    OnsetLoop(SortedNotes(ns), 1, NoOnsets, channel, chord_policy)

----------------------------------------------------------------------------
(* parse_channel_list and choose_voice_channels, lines 283-326. *)

Digits == [c \in {"0", "1", "2", "3", "4", "5", "6", "7", "8", "9"} |->
             CASE c = "0" -> 0 [] c = "1" -> 1 [] c = "2" -> 2 [] c = "3" -> 3
               [] c = "4" -> 4 [] c = "5" -> 5 [] c = "6" -> 6 [] c = "7" -> 7
               [] c = "8" -> 8 [] c = "9" -> 9]

\* str.strip() of a part, a sequence of characters
RECURSIVE StripLeft(_)
StripLeft(cs) ==
    IF cs # <<>> /\ cs[1] = " " THEN StripLeft(Tail(cs)) ELSE cs

RECURSIVE StripRight(_)
StripRight(cs) ==
    IF cs # <<>> /\ cs[Len(cs)] = " "
    THEN StripRight(SubSeq(cs, 1, Len(cs) - 1)) ELSE cs

Strip(cs) == StripRight(StripLeft(cs))

RECURSIVE DigitsValue(_, _)
DigitsValue(cs, acc) ==
    IF cs = <<>> THEN acc ELSE DigitsValue(Tail(cs), acc * 10 + Digits[cs[1]])

\* int(token) for a stripped, non-empty token: an optional sign and decimal
\* digits, anything else is a ValueError
IntOf(token) ==
    LET signed == token[1] \in {"-", "+"}
        body   == IF signed THEN Tail(token) ELSE token
    IN  IF body = <<>> \/ \E i \in 1..Len(body) : body[i] \notin DOMAIN Digits
        THEN [ok |-> FALSE, value |-> 0]
        ELSE [ok |-> TRUE,
              value |-> IF token[1] = "-" THEN 0 - DigitsValue(body, 0)
                        ELSE DigitsValue(body, 0)]

\* args.channels when --channels is not given
NoArg == << <<"None">> >>

\* lines 287-298 over parts[i..], the parts of raw.split(",")
RECURSIVE ChannelLoop(_, _, _)
ChannelLoop(parts, i, channels) ==
    IF i > Len(parts) THEN [ok |-> TRUE, channels |-> channels]
    ELSE LET token == Strip(parts[i])
         IN  IF token = <<>> THEN ChannelLoop(parts, i + 1, channels)
             ELSE LET value == IntOf(token)
                  IN  IF ~value.ok THEN [ok |-> FALSE, channels |-> <<>>]
                      ELSE IF ~(1 <= value.value /\ value.value <= 16)
                      THEN [ok |-> FALSE, channels |-> <<>>]
                      ELSE ChannelLoop(parts, i + 1,
                                       Append(channels, value.value - 1))

\* parse_channel_list: ok = FALSE is a ValueError; the result None is <<>>,
\* which choose_voice_channels cannot tell from None (line 306)
parse_channel_list(raw) ==
    IF raw = NoArg THEN [ok |-> TRUE, channels |-> <<>>]
    ELSE ChannelLoop(raw, 1, <<>>)

\* [ch for ch in range(16) if ch not in used], from channel ch on
RECURSIVE Unused(_, _)
Unused(used, ch) ==
    IF ch >= 16 THEN <<>>
    ELSE (IF ch \in used THEN <<>> ELSE <<ch>>) \o Unused(used, ch + 1)

Range(s) == {s[i] : i \in 1..Len(s)}

\* by_channel of lines 314-316: the note count of every channel with notes
ByChannel(ns) ==
    [ch \in {ns[i].channel : i \in 1..Len(ns)} |->
        Cardinality({i \in 1..Len(ns) : ns[i].channel = ch})]

\* line 318: the channels by descending count, then ascending channel
RECURSIVE Ranked(_)
Ranked(counts) ==
    IF DOMAIN counts = {} THEN <<>>
    ELSE LET best == CHOOSE c \in DOMAIN counts :
                        \A d \in DOMAIN counts :
                            \/ counts[c] > counts[d]
                            \/ counts[c] = counts[d] /\ c <= d
         IN  <<best>> \o Ranked([d \in DOMAIN counts \ {best} |-> counts[d]])

\* lines 306-312: an explicit, non-empty channel list
ChooseExplicit(voices, explicit) ==
    LET chosen == Slice(explicit, 0, voices)
    IN  IF Len(chosen) < voices
        THEN chosen \o Slice(Unused(Range(chosen), 0), 0, voices - Len(chosen))
        ELSE chosen

\* lines 314-326: the channels ranked by their notes
ChooseRanked(ns, voices) ==
    LET ranked == Ranked(ByChannel(ns))
    IN  IF ranked = <<>> THEN [i \in 1..voices |-> i - 1]
        ELSE IF Len(ranked) < voices
        THEN Slice(ranked \o Unused(Range(ranked), 0), 0, voices)
        ELSE Slice(ranked, 0, voices)

\* a selector that remembers its last answer and moves on from it
ChooseRemembering(ns, voices, explicit) ==
    IF voice_channels # <<>>
    THEN [i \in 1..voices |-> (voice_channels[1] + i) % 16]
    ELSE IF explicit # <<>> THEN ChooseExplicit(voices, explicit)
    ELSE ChooseRanked(ns, voices)

choose_voice_channels(ns, voices, explicit) ==
    IF explicit # <<>> THEN ChooseExplicit(voices, explicit)
    ELSE ChooseRanked(ns, voices)

----------------------------------------------------------------------------
(* emit_basic, lines 359-547. *)

\* int(round(440.0 * (2.0 ** ((note - 69) / 12.0)))) for note 0..127
FreqTable ==
    <<
       8, 9, 9, 10, 10, 11, 12, 12,
       13, 14, 15, 15, 16, 17, 18, 19,
       21, 22, 23, 24, 26, 28, 29, 31,
       33, 35, 37, 39, 41, 44, 46, 49,
       52, 55, 58, 62, 65, 69, 73, 78,
       82, 87, 92, 98, 104, 110, 117, 123,
       131, 139, 147, 156, 165, 175, 185, 196,
       208, 220, 233, 247, 262, 277, 294, 311,
       330, 349, 370, 392, 415, 440, 466, 494,
       523, 554, 587, 622, 659, 698, 740, 784,
       831, 880, 932, 988, 1047, 1109, 1175, 1245,
       1319, 1397, 1480, 1568, 1661, 1760, 1865, 1976,
       2093, 2217, 2349, 2489, 2637, 2794, 2960, 3136,
       3322, 3520, 3729, 3951, 4186, 4435, 4699, 4978,
       5274, 5588, 5920, 6272, 6645, 7040, 7459, 7902,
       8372, 8870, 9397, 9956, 10548, 11175, 11840, 12544
    >>

midi_note_to_freq(note) == FreqTable[note + 1]

\* lines 372-375
OnsetsPerVoice(ns, voices, vchans, chord_policy) ==
    LET chans == Slice(vchans, 0, voices)
    IN  [v \in 1..Len(chans) |->
            select_monophonic_onsets(ns, chans[v], chord_policy)]

\* lines 381-383: tempo_by_tick of emit_basic
EmitTempoByTick(tps) ==
    LET last(t) == CHOOSE i \in 1..Len(tps) :
                       /\ tps[i].tick = t
                       /\ \A j \in (i + 1)..Len(tps) : tps[j].tick # t
        m == [t \in {tps[i].tick : i \in 1..Len(tps)} |-> tps[last(t)].bpm]
    IN  IF 0 \in DOMAIN m THEN m
        ELSE [t \in DOMAIN m \cup {0} |-> IF t = 0 THEN tps[1].bpm ELSE m[t]]

SetMin(S) == CHOOSE x \in S : \A y \in S : x <= y

\* lines 385-386, bpm_override None is -1
InitialBpm(tps, bpm_override) ==
    LET m == EmitTempoByTick(tps)
    IN  Max(1, IF bpm_override # None THEN bpm_override ELSE m[SetMin(DOMAIN m)])

\* lines 377-391: all_ticks without the closing tick of lines 393-394
AllTicksUnclosed(ons_per_voice, tps, end_tick, tempo_mode, tail_ticks) ==
    UNION {DOMAIN ons_per_voice[v] : v \in 1..Len(ons_per_voice)}
    \cup (IF tempo_mode = "track"
          THEN {t \in DOMAIN EmitTempoByTick(tps) : t > 0} ELSE {})

\* lines 377-394: all_ticks
AllTicks(ons_per_voice, tps, end_tick, tempo_mode, tail_ticks) ==
    UNION {DOMAIN ons_per_voice[v] : v \in 1..Len(ons_per_voice)}
    \cup (IF tempo_mode = "track"
          THEN {t \in DOMAIN EmitTempoByTick(tps) : t > 0} ELSE {})
    \cup (IF end_tick > 0 THEN {end_tick + Max(0, tail_ticks)} ELSE {})

\* sorted(S) for a set of integers
RECURSIVE SortedSet(_)
SortedSet(S) ==
    IF S = {} THEN <<>> ELSE <<SetMin(S)>> \o SortedSet(S \ {SetMin(S)})

\* a timeline that always opens with tick 0, in place of lines 396-398
TimelineFromZero(all_ticks) == <<0>> \o SortedSet(all_ticks)

\* lines 396-398
Timeline(all_ticks) == IF all_ticks = {} THEN <<0>> ELSE SortedSet(all_ticks)

\* lines 411-417 with a duration of 1 for every onset
RECURSIVE SlotsOfOneTick(_, _, _)
SlotsOfOneTick(ons_per_voice, v, t) ==
    IF v > Len(ons_per_voice) THEN <<>>
    ELSE (IF t \notin DOMAIN ons_per_voice[v] THEN <<0, 0>>
          ELSE <<midi_note_to_freq(ons_per_voice[v][t].note), 1>>)
         \o SlotsOfOneTick(ons_per_voice, v + 1, t)

\* lines 411-417: the slots of the voices v.. at tick t
RECURSIVE Slots(_, _, _)
Slots(ons_per_voice, v, t) ==
    IF v > Len(ons_per_voice) THEN <<>>
    ELSE (IF t \notin DOMAIN ons_per_voice[v] THEN <<0, 0>>
          ELSE LET note == ons_per_voice[v][t]
               IN  <<midi_note_to_freq(note.note),
                     Max(1, note.end_tick - note.start_tick)>>)
         \o Slots(ons_per_voice, v + 1, t)

\* lines 404-409 without the test of tempo_mode
RowHeadAnyMode(t, prev_tick, tps, tempo_mode) ==
    <<Max(0, t - prev_tick),
      IF t \in DOMAIN EmitTempoByTick(tps) /\ t # 0
      THEN EmitTempoByTick(tps)[t] ELSE 0>>

\* lines 404-409: the head of the row of tick t
RowHead(t, prev_tick, tps, tempo_mode) ==
    <<Max(0, t - prev_tick),
      IF tempo_mode = "track" /\ t \in DOMAIN EmitTempoByTick(tps) /\ t # 0
      THEN EmitTempoByTick(tps)[t] ELSE 0>>

\* lines 403-420: the rows of timeline[i..]
RECURSIVE RowLoop(_, _, _, _, _, _)
RowLoop(timeline, i, prev_tick, ons_per_voice, tps, tempo_mode) ==
    IF i > Len(timeline) THEN <<>>
    ELSE <<RowHead(timeline[i], prev_tick, tps, tempo_mode)
           \o Slots(ons_per_voice, 1, timeline[i])>>
         \o RowLoop(timeline, i + 1, timeline[i], ons_per_voice, tps, tempo_mode)

\* lines 423-426 without the test of the wait: a silent last row is removed
DropSilent(evs) ==
    IF evs = <<>> THEN evs
    ELSE LET last == evs[Len(evs)]
         IN  IF last[2] = 0 /\ (\A k \in 3..Len(last) : last[k] = 0)
             THEN SubSeq(evs, 1, Len(evs) - 1)
             ELSE evs

\* lines 423-426: a trailing row that does nothing is removed
DropTrailing(evs) ==
    IF evs = <<>> THEN evs
    ELSE LET last == evs[Len(evs)]
         IN  IF last[2] = 0 /\ (\A k \in 3..Len(last) : last[k] = 0) /\ last[1] = 0
             THEN SubSeq(evs, 1, Len(evs) - 1)
             ELSE evs

\* lines 372-426: events
Events(ns, tps, end_tick, voices, vchans, chord_policy, tempo_mode, tail_ticks) ==
    LET ons == OnsetsPerVoice(ns, voices, vchans, chord_policy)
        tl  == Timeline(AllTicks(ons, tps, end_tick, tempo_mode, tail_ticks))
    IN  DropTrailing(RowLoop(tl, 1, 0, ons, tps, tempo_mode))

\* ",".join(str(x) for x in xs)
RECURSIVE Csv(_)
Csv(xs) ==
    IF xs = <<>> THEN ""
    ELSE IF Len(xs) = 1 THEN ToString(xs[1])
    ELSE ToString(xs[1]) \o "," \o Csv(Tail(xs))

\* ",".join(parts) for a sequence of strings
RECURSIVE Join(_)
Join(parts) ==
    IF parts = <<>> THEN ""
    ELSE IF Len(parts) = 1 THEN parts[1]
    ELSE parts[1] \o "," \o Join(Tail(parts))

\* one line of the program: its text as emitted, and what the text holds
\* (the line number, the line number a control transfer names, the rows of a
\* DATA line, the bar a marker names)
Line(no, kind, body, target, rows, measure) ==
    [no |-> no, kind |-> kind, text |-> ToString(no) \o " " \o body,
     target |-> target, rows |-> rows, measure |-> measure]

Stmt(no, body) == Line(no, "CODE", body, 0, <<>>, 0)
Rem(no, body) == Line(no, "REM", body, 0, <<>>, 0)
Jump(no, body, target) ==
    Line(no, "JUMP", body \o ToString(target), target, <<>>, 0)

\* DEFAULT_VOICES, lines 66-71
DEFAULT_VOICES ==
    << [wave |-> 2, attack |-> 2, decay |-> 6, sustain |-> 10, release |-> 6],
       [wave |-> 0, attack |-> 1, decay |-> 4, sustain |-> 12, release |-> 4],
       [wave |-> 4, attack |-> 2, decay |-> 5, sustain |-> 10, release |-> 6],
       [wave |-> 1, attack |-> 2, decay |-> 4, sustain |-> 9, release |-> 5] >>

\* lines 431-433
TicksPerBar(pq, ts) == RoundDiv(pq * 4 * ts.numerator, ts.denominator)
TicksPerBeat(pq, ts) == RoundDiv(pq * 4, ts.denominator)

\* lines 435-447: the REM header and VOLUME, line numbers 10 to 50
HeaderLines(pq, ts, initial_bpm, voices, vchans, title, input_label, volume) ==
    << Rem(10, "REM NovaBASIC v1.0 - " \o title),
       Rem(20, "REM SOURCE: " \o input_label),
       Rem(30, "REM PPQN=" \o ToString(pq) \o " TIME=" \o ToString(ts.numerator)
               \o "/" \o ToString(ts.denominator) \o " BPM0="
               \o ToString(initial_bpm) \o " CHANNELS="
               \o Csv([i \in 1..Len(Slice(vchans, 0, voices)) |->
                          vchans[i] + 1])),
       Rem(40, "REM DATA: WTICKS,TEMPO,"
               \o Join([v \in 1..voices |->
                           "F" \o ToString(v - 1) \o ",D" \o ToString(v - 1)])),
       Stmt(50, "VOLUME " \o ToString(Max(0, Min(15, volume)))) >>

\* lines 450-455: one line per voice, from line number 60
VoiceLines(voices) ==
    [v \in 1..voices |->
        LET vc == DEFAULT_VOICES[v]
            n  == ToString(v - 1)
        IN  Stmt(60 + 10 * (v - 1),
                 "ENVELOPE " \o n \o "," \o ToString(vc.attack) \o ","
                 \o ToString(vc.decay) \o "," \o ToString(vc.sustain) \o ","
                 \o ToString(vc.release) \o ":WAVE " \o n \o ","
                 \o ToString(vc.wave))]

\* lines 484-493: the four lines of voice v (0-based), from line number no
VoiceBlock(v, no) ==
    LET n == ToString(v)
    IN  << Jump(no, "IF F" \o n \o "=0 THEN ", no + 40),
           Stmt(no + 10, "L=INT(D" \o n \o "*SC+0.5)"),
           Stmt(no + 20, "IF L<1 THEN L=1"),
           Stmt(no + 30, "SOUND " \o n \o ",F" \o n \o ",L") >>

RECURSIVE VoiceBlocks(_, _, _)
VoiceBlocks(v, voices, no) ==
    IF v >= voices THEN <<>>
    ELSE VoiceBlock(v, no) \o VoiceBlocks(v + 1, voices, no + 40)

\* lines 457-497: the player, from line number no
PlayerLines(pq, initial_bpm, voices, no) ==
    LET loop_line == no + 30
    IN  << Stmt(no, "PP=" \o ToString(pq) \o ":SCALE=100:BPM="
                    \o ToString(initial_bpm) \o "*SCALE/100"),
           Stmt(no + 10, "SC=3600/(BPM*PP)"),
           Jump(no + 20, "RESTORE ", 2000),
           Stmt(loop_line,
                "READ W,T,"
                \o Join([v \in 1..voices |->
                            "F" \o ToString(v - 1) \o ",D" \o ToString(v - 1)])),
           Jump(no + 40, "IF W<0 THEN ", 900),
           Stmt(no + 50, "WF=0"),
           Stmt(no + 60, "IF W>0 THEN WF=INT(W*SC+0.5)"),
           Stmt(no + 70, "IF WF<1 THEN WF=1"),
           Stmt(no + 80, "IF W>0 THEN FOR I=1 TO WF:VSYNC:NEXT I"),
           Stmt(no + 90, "IF T>0 THEN BPM=T*SCALE/100:SC=3600/(BPM*PP)") >>
        \o VoiceBlocks(0, voices, no + 100)
        \o << Jump(no + 100 + 40 * voices, "GOTO ", loop_line),
              Stmt(no + 110 + 40 * voices, "END") >>

\* lines 499-503: the first marker, line number 2000
FirstMarker(pq, ts, chord_policy) ==
    Line(2000, "MARK",
         "REM M1 TICKS/BAR=" \o ToString(TicksPerBar(pq, ts)) \o " TICKS/BEAT="
         \o ToString(TicksPerBeat(pq, ts)) \o " POLICY="
         \o (IF chord_policy = "high" THEN "HIGH"
             ELSE IF chord_policy = "low" THEN "LOW" ELSE "FIRST"),
         0, <<>>, 1)

\* prefix(ln) + ",".join(chunk), the chunk given as its rows
DataLine(no, rows) ==
    Line(no, "DATA",
         "DATA " \o Join([k \in 1..Len(rows) |-> Csv(rows[k])]), 0, rows, 0)

\* lines 512-532: the loop over events[i..]; st holds lines, data_line, chunk
\* (as rows), current_measure, prev_tick and the exception raised, if any
RECURSIVE DataLoop(_, _, _, _, _)
DataLoop(evs, i, st, ticks_per_bar, max_line_len) ==
    IF i > Len(evs) \/ st.err # "none" THEN st
    ELSE
    LET event == evs[i]
        t     == st.prev_tick + event[1]
        mark  == t >= st.current_measure * ticks_per_bar
    IN  IF mark /\ ticks_per_bar = 0
        THEN [st EXCEPT !.err = "ZeroDivisionError"]
        ELSE
        LET s1 == IF mark
                  THEN [st EXCEPT
                          !.lines = Append(@, Line(st.data_line, "MARK",
                                       "REM M" \o ToString(st.current_measure + 1),
                                       0, <<>>, st.current_measure + 1)),
                          !.data_line = @ + 10,
                          !.current_measure = (t \div ticks_per_bar) + 1,
                          !.prev_tick = t]
                  ELSE [st EXCEPT !.prev_tick = t]
            candidate == DataLine(s1.data_line, Append(s1.chunk, event))
        IN  IF Len(candidate.text) > max_line_len
            THEN IF s1.chunk = <<>>
                 THEN [s1 EXCEPT !.err = "RuntimeError"]
                 ELSE DataLoop(evs, i + 1,
                               [s1 EXCEPT
                                  !.lines = Append(@, DataLine(s1.data_line, s1.chunk)),
                                  !.data_line = @ + 10,
                                  !.chunk = <<event>>],
                               ticks_per_bar, max_line_len)
            ELSE DataLoop(evs, i + 1, [s1 EXCEPT !.chunk = Append(@, event)],
                          ticks_per_bar, max_line_len)

\* a sentinel of one zero a voice, in place of line 538's two
ShortSentinel(voices) == <<-1, 0>> \o [k \in 1..voices |-> 0]

\* a last row whose wait is 0, in place of line 538's -1
SentinelZero(voices) == <<0, 0>> \o [k \in 1..(voices * 2) |-> 0]

\* line 538
Sentinel(voices) == <<-1, 0>> \o [k \in 1..(voices * 2) |-> 0]

\* line 539 alone: the sentinel line, the rows left in chunk not written
CloseDataUnflushed(st, voices) ==
    [st EXCEPT !.lines = Append(@, DataLine(st.data_line, <<Sentinel(voices)>>))]

\* lines 534-539: the last chunk and the sentinel
CloseData(st, voices) ==
    LET s1 == IF st.chunk # <<>>
              THEN [st EXCEPT !.lines = Append(@, DataLine(st.data_line, st.chunk)),
                              !.data_line = @ + 10]
              ELSE st
    IN  [s1 EXCEPT !.lines = Append(@, DataLine(s1.data_line, <<Sentinel(voices)>>))]

\* no test of the lengths, in place of lines 541-545
NeverTooLong(lns, max_line_len) == FALSE

\* the test of lines 541-545 on the lines that are not DATA lines only
TooLongCode(lns, max_line_len) ==
    \E k \in 1..Len(lns) :
        lns[k].kind # "DATA" /\ Len(lns[k].text) > max_line_len

\* lines 541-545
TooLong(lns, max_line_len) ==
    \E k \in 1..Len(lns) : Len(lns[k].text) > max_line_len

\* emit_basic: the lines of the program and the rows they were made from,
\* or the exception raised
emit_basic(sg, title, input_label, voices, vchans, chord_policy, tempo_mode, bpm_override, volume, tail_ticks, max_line_len) ==
    LET evs  == Events(sg.notes, sg.tempos, sg.end_tick, voices, vchans,
                       chord_policy, tempo_mode, tail_ticks)
        bpm0 == InitialBpm(sg.tempos, bpm_override)
        ts   == sg.time_signature
        head == HeaderLines(sg.ppqn, ts, bpm0, voices, vchans, title,
                            input_label, volume)
                \o VoiceLines(voices)
                \o PlayerLines(sg.ppqn, bpm0, voices, 60 + 10 * voices)
                \o <<FirstMarker(sg.ppqn, ts, chord_policy)>>
        st   == DataLoop(evs, 1,
                         [lines |-> head, data_line |-> 2010, chunk |-> <<>>,
                          current_measure |-> 1, prev_tick |-> 0, err |-> "none"],
                         TicksPerBar(sg.ppqn, ts), max_line_len)
        done == CloseData(st, voices)
    IN  IF st.err # "none" THEN [err |-> st.err, events |-> evs, lines |-> <<>>]
        ELSE IF TooLong(done.lines, max_line_len)
        THEN [err |-> "RuntimeError", events |-> evs, lines |-> <<>>]
        ELSE [err |-> "none", events |-> evs, lines |-> done.lines]

----------------------------------------------------------------------------
(* What a specification leaves alone: the variables of the other two. *)

DefaultArgs ==
    [channels |-> NoArg, voices |-> 2, chord_policy |-> "high",
     tempo_mode |-> "fixed", bpm |-> None, volume |-> 12, tail_ticks |-> 0,
     max_line_len |-> 68, title |-> "SCORE PLAYER", input_name |-> "song.mid"]

MainIdle ==
    /\ caller = "main"
    /\ args = DefaultArgs
    /\ explicit_channels = <<>>
    /\ voice_channels = <<>>
    /\ events = <<>>
    /\ lines = <<>>
    /\ output = <<>>

PlayerIdle ==
    /\ player_line = 0
    /\ player_state = "off"
    /\ data_store = <<>>
    /\ data_ptr = 0
    /\ basic = <<>>
    /\ rows_read = <<>>

OnsetsIdle ==
    /\ sel_channel = 0
    /\ sorted_notes = <<>>
    /\ note_index = 0
    /\ onsets = NoOnsets

DecodeIdle ==
    /\ data = <<>>
    /\ offset = 0
    /\ track_count = 0
    /\ track_index = 0
    /\ track = <<>>
    /\ pos = 0
    /\ tick = 0
    /\ running_status = None
    /\ active = <<>>
    /\ overrun = FALSE
    /\ vlq_value = 0

----------------------------------------------------------------------------
(* parse_midi as a run: the steps between which its state can be seen. *)

\* the loop variables of a track, as DecodeOne takes them
LoopState ==
    [pos |-> pos, tick |-> tick, running_status |-> running_status,
     active |-> active, notes |-> notes, tempos |-> tempos,
     time_signature |-> time_signature, overrun |-> overrun]

\* an exception leaves parse_midi: the locals are gone, main sees the kind
Raise(kind) ==
    /\ pc' = "raised"
    /\ err' = kind
    /\ UNCHANGED <<data, offset, ppqn, track_count, track_index, track, pos,
                   tick, running_status, active, notes, tempos,
                   time_signature, song_end_tick, overrun>>

\* lines 98-123: the file header
ParseHeader ==
    /\ pc = "start"
    /\ UNCHANGED <<mainVars, onsetVars, playerVars, vlq_value>>
    /\ IF Slice(data, 0, 4) # MThd THEN Raise("MidiParseError")
       ELSE IF ~UnpackFits(data, 4, 4) THEN Raise("struct.error")
       ELSE IF U32(data, 4) < 6 THEN Raise("MidiParseError")
       ELSE IF ~UnpackFits(data, 8, 6) THEN Raise("struct.error")
       ELSE IF U16(data, 12) >= 32768 THEN Raise("MidiParseError")
       ELSE IF U16(data, 12) <= 0 THEN Raise("MidiParseError")
       ELSE /\ offset' = 8 + U32(data, 4)
            /\ ppqn' = U16(data, 12)
            /\ track_count' = U16(data, 10)
            /\ track_index' = 0
            /\ notes' = <<>>
            /\ tempos' = <<>>
            /\ time_signature' = [numerator |-> 4, denominator |-> 4]
            /\ song_end_tick' = 0
            /\ pc' = IF U16(data, 10) > 0 THEN "track" ELSE "finish"
            /\ UNCHANGED <<data, err, track, pos, tick, running_status,
                           active, overrun>>

\* lines 125-137: the header of the next track chunk, and the chunk's bytes
ParseTrackHeader ==
    /\ pc = "track"
    /\ UNCHANGED <<mainVars, onsetVars, playerVars, vlq_value>>
    /\ IF Slice(data, offset, offset + 4) # MTrk THEN Raise("MidiParseError")
       ELSE IF ~UnpackFits(data, offset + 4, 4) THEN Raise("struct.error")
       ELSE LET track_len == U32(data, offset + 4)
                body      == Slice(data, offset + 8, offset + 8 + track_len)
            IN  /\ track' = body
                /\ offset' = offset + 8 + track_len
                /\ overrun' = (overrun \/ offset + 8 + track_len > Len(data))
                /\ running_status' = None
                /\ pos' = 0
                /\ tick' = 0
                /\ active' = <<>>
                /\ pc' = IF 0 < Len(body) THEN "event" ELSE "close"
                /\ UNCHANGED <<data, err, ppqn, track_count, track_index,
                               notes, tempos, time_signature, song_end_tick>>

\* lines 139-216: one iteration of the track loop
DecodeEvent ==
    /\ pc = "event"
    /\ UNCHANGED <<mainVars, onsetVars, playerVars, vlq_value>>
    /\ LET r == DecodeOne(track, LoopState)
       IN  IF r.outcome \in {"continue", "break"}
           THEN /\ pos' = r.st.pos
                /\ tick' = r.st.tick
                /\ running_status' = r.st.running_status
                /\ active' = r.st.active
                /\ notes' = r.st.notes
                /\ tempos' = r.st.tempos
                /\ time_signature' = r.st.time_signature
                /\ overrun' = r.st.overrun
                /\ pc' = IF r.outcome = "continue" /\ r.st.pos < Len(track)
                         THEN "event" ELSE "close"
                /\ UNCHANGED <<data, err, offset, ppqn, track_count,
                               track_index, track, song_end_tick>>
           ELSE Raise(r.outcome)

\* lines 218-231: the track loop has ended
CloseTrack ==
    /\ pc = "close"
    /\ UNCHANGED <<mainVars, onsetVars, playerVars, vlq_value>>
    /\ notes' = notes \o CloseActive(active, 1, tick)
    /\ song_end_tick' = Max(song_end_tick, tick)
    /\ track_index' = track_index + 1
    /\ pc' = IF track_index + 1 < track_count THEN "track" ELSE "finish"
    /\ UNCHANGED <<data, err, offset, ppqn, track_count, track, pos, tick,
                   running_status, active, tempos, time_signature, overrun>>

\* lines 233-248: the song is returned
FinishParse ==
    /\ pc = "finish"
    /\ UNCHANGED <<mainVars, onsetVars, playerVars, vlq_value>>
    /\ tempos' = FinalTempos(tempos)
    /\ pc' = "parsed"
    /\ UNCHANGED <<data, err, offset, ppqn, track_count, track_index, track,
                   pos, tick, running_status, active, notes, time_signature,
                   song_end_tick, overrun>>

\* lines 119-122 and 134-137: the locals when the loop of the first track
\* starts
TrackStart ==
    [pos |-> 0, tick |-> 0, running_status |-> None, active |-> <<>>,
     notes |-> <<>>, tempos |-> <<>>,
     time_signature |-> [numerator |-> 4, denominator |-> 4],
     overrun |-> FALSE]

\* lines 134-248 for a file of one track with the bytes trk: the exception
\* raised, or the notes, tempos, time signature and final tick of the Song
DecodeTrack(trk) ==
    LET r == TrackLoop(trk, TrackStart)
    IN  IF r.outcome = "MidiParseError"
        THEN [err |-> "MidiParseError", notes |-> <<>>, tempos |-> <<>>,
              time_signature |-> TrackStart.time_signature, end_tick |-> 0]
        ELSE [err |-> "none",
              notes |-> r.st.notes \o CloseActive(r.st.active, 1, r.st.tick),
              tempos |-> FinalTempos(r.st.tempos),
              time_signature |-> r.st.time_signature,
              end_tick |-> Max(0, r.st.tick)]

\* the exceptions main's handler catches, line 675
Caught == {"MidiParseError", "RuntimeError"}

\* lines 675-677: main reports a caught exception and returns 1; any other
\* exception leaves main as a traceback
MainExcept ==
    /\ pc = "raised"
    /\ caller = "main"
    /\ pc' = IF err \in Caught THEN "exit1" ELSE "uncaught"
    /\ UNCHANGED <<err, decodeVars, songVars, mainVars, onsetVars, playerVars>>

----------------------------------------------------------------------------
(* The input files of SpecParse. *)

U16Bytes(n) == <<n \div 256, n % 256>>
U32Bytes(n) == <<0, 0>> \o U16Bytes(n)

\* a header chunk of declared length 6: format 1, ntrks tracks
Header(ntrks, division) ==
    MThd \o U32Bytes(6) \o U16Bytes(1) \o U16Bytes(ntrks) \o U16Bytes(division)

\* a track chunk that declares extra bytes more than its body holds
ChunkDeclaring(body, extra) == MTrk \o U32Bytes(Len(body) + extra) \o body

Chunk(body) == ChunkDeclaring(body, 0)

\* the bodies of at most n fragments of frags
RECURSIVE Bodies(_, _)
Bodies(frags, n) ==
    IF n = 0 THEN {<<>>}
    ELSE LET shorter == Bodies(frags, n - 1)
         IN  shorter \cup {b \o f : b \in shorter, f \in frags}

Prefixes(s) == {SubSeq(s, 1, n) : n \in 0..Len(s)}

\* note-on and note-off of one key (channel 0, pitch 60) after a delta
NoteDeltas == {0, 3, 4, 5}
NoteOnBytes == <<144, 60, 64>>
NoteOffBytes == <<128, 60, 0>>
NoteFrags == {<<d>> \o e : d \in NoteDeltas, e \in {NoteOnBytes, NoteOffBytes}}

\* one track of at most MaxNoteEvents of these events
NoteFile ==
    \E b \in Bodies(NoteFrags, MaxNoteEvents) : data = Header(1, 480) \o Chunk(b)

\* events of every kind the decoder dispatches on, each after a delta of 0 or 2
MixedEvents ==
    { <<144, 60, 64>>,                  \* note-on, channel 0
      <<128, 60, 0>>,                   \* note-off, channel 0
      <<144, 60, 0>>,                   \* note-on of velocity 0
      <<60, 64>>,                       \* two data bytes under running status
      <<60, 0>>,
      <<145, 64, 80>>,                  \* note-on, channel 1
      <<144, 200, 64>>,                 \* note-on, first data byte above 127
      <<144, 60, 200>>,                 \* note-on, second data byte above 127
      <<193, 5>>,                       \* program change
      <<176, 7, 100>>,                  \* control change
      <<255, 81, 3, 7, 161, 32>>,       \* tempo 500000 us: 120 BPM
      <<255, 81, 3, 15, 66, 64>>,       \* tempo 1000000 us: 60 BPM
      <<255, 81, 3, 0, 0, 0>>,          \* tempo 0 us
      <<255, 88, 4, 3, 3, 24, 8>>,      \* time signature 3/8
      <<255, 88, 4, 0, 2, 24, 8>>,      \* time signature, numerator 0
      <<255, 47, 0>>,                   \* end of track
      <<255, 1, 2, 104, 105>>,          \* text
      <<240, 2, 1, 247>>,               \* system exclusive
      <<255, 81, 3, 7, 161>>,           \* tempo, one payload byte short
      <<255, 1, 5, 104>>,               \* text, four payload bytes short
      <<240, 3, 1>>,                    \* system exclusive, two bytes short
      <<144, 60>>,                      \* note-on, one data byte short
      <<255>>,                          \* meta, no type byte
      <<255, 81, 131>> }                \* meta, unterminated length
MixedDeltas == {<<0>>, <<2>>, <<129, 0>>}
MixedFrags == {d \o e : d \in MixedDeltas, e \in MixedEvents}

\* every file of one track of at most two of these events
MixedFile ==
    \E a \in MixedFrags \cup {<<>>}, b \in MixedFrags \cup {<<>>} :
        data = Header(1, 96) \o Chunk(a \o b)

\* two tracks: notes left open, running status and tempo across tracks
TwoTrackFrags ==
    {<<0>> \o e : e \in { <<144, 60, 64>>, <<128, 60, 0>>, <<60, 64>>,
                          <<255, 81, 3, 7, 161, 32>>,
                          <<255, 81, 3, 15, 66, 64>>, <<255, 47, 0>> }}
    \cup {<<2, 128, 60, 0>>, <<2, 144, 60, 64>>}

TwoTrackFile ==
    \E b1 \in Bodies(TwoTrackFrags, MaxEvents), b2 \in Bodies(TwoTrackFrags, 1) :
        data = Header(2, 96) \o Chunk(b1) \o Chunk(b2)

\* the most events after the first of a track under running status
MaxStatusEvents == 3

\* channel events without their status byte, and meta and system-exclusive
\* events between them, each after a delta of 0 or 2
StatusFrags ==
    {<<d>> \o e : d \in {0, 2},
                  e \in { <<60, 64>>, <<60, 0>>, <<64, 80>>,
                          <<255, 81, 3, 7, 161, 32>>, <<240, 2, 1, 247>>,
                          <<255, 47, 0>> }}

\* one track (resolution 192): a note-on with its status byte, then events
\* under running status
StatusFile ==
    \E status \in {144, 145}, b \in Bodies(StatusFrags, MaxStatusEvents) :
        data = Header(1, 192) \o Chunk(<<0, status, 60, 64>> \o b)

\* on at 0, on at 5, off at 8, off at 12, for one key
StackingBody == <<0, 144, 60, 64,  5, 144, 60, 64,  3, 128, 60, 0,  4, 128, 60, 0>>

\* whole files cut short at every length, and chunks that declare more
\* bytes than the file holds
SampleFiles ==
    { Header(1, 480) \o Chunk(StackingBody),
      Header(2, 96) \o Chunk(<<0, 255, 81, 3, 7, 161, 32, 0, 255, 47, 0>>)
                    \o Chunk(<<0, 145, 64, 80, 2, 64, 0, 0, 255, 47, 0>>) }

TruncatedFile == \E f \in SampleFiles : data \in Prefixes(f)

OverdeclaredFile ==
    \E b \in Bodies(TwoTrackFrags, MaxEvents), extra \in {1, 7} :
        data = Header(1, 96) \o ChunkDeclaring(b, extra)

\* headers the decoder rejects, or reads in an unusual way
HeaderFiles ==
    { <<77, 84, 104, 101>> \o U32Bytes(6) \o <<0, 1, 0, 1, 0, 96>>,
      MThd \o U32Bytes(5) \o <<0, 1, 0, 1, 0, 96>>,
      MThd \o U32Bytes(5),
      MThd \o U32Bytes(7) \o <<0, 1, 0, 1, 0, 96, 0>> \o Chunk(<<0, 144, 60, 64>>),
      MThd \o U32Bytes(9) \o <<0, 1, 0, 0, 0, 96>>,
      Header(1, 32768 + 96) \o Chunk(<<>>),
      Header(1, 0) \o Chunk(<<>>),
      Header(0, 96),
      Header(0, 96) \o Chunk(<<0, 144, 60, 64>>),
      Header(2, 96) \o Chunk(<<0, 144, 60, 64>>),
      Header(1, 96) \o <<77, 84, 114, 108>> \o U32Bytes(0),
      Header(1, 96) \o Chunk(<<>>) }

InputFile ==
    \/ NoteFile
    \/ MixedFile
    \/ TwoTrackFile
    \/ TruncatedFile
    \/ OverdeclaredFile
    \/ StatusFile
    \/ data \in HeaderFiles

----------------------------------------------------------------------------
(* SpecParse: parse_midi on every input file. *)

InitParse ==
    /\ InputFile
    /\ pc = "start"
    /\ err = "none"
    /\ offset = 0
    /\ ppqn = 0
    /\ track_count = 0
    /\ track_index = 0
    /\ track = <<>>
    /\ pos = 0
    /\ tick = 0
    /\ running_status = None
    /\ active = <<>>
    /\ notes = <<>>
    /\ tempos = <<>>
    /\ time_signature = [numerator |-> 4, denominator |-> 4]
    /\ song_end_tick = 0
    /\ overrun = FALSE
    /\ vlq_value = 0
    /\ MainIdle
    /\ OnsetsIdle
    /\ PlayerIdle

NextParse ==
    \/ ParseHeader
    \/ ParseTrackHeader
    \/ DecodeEvent
    \/ CloseTrack
    \/ FinishParse
    \/ MainExcept

SpecParse == InitParse /\ [][NextParse]_vars

----------------------------------------------------------------------------
(* main, lines 588-677, from parse_channel_list on; the song is the one     *)
(* parse_midi returned.  A state with caller = "direct" is a call of        *)
(* emit_basic on its own, with the arguments in args.                       *)

Song ==
    [ppqn |-> ppqn, notes |-> notes, tempos |-> tempos,
     time_signature |-> time_signature, end_tick |-> song_end_tick]

\* lines 599-603: a ValueError is reported and main returns 1
ParseChannels ==
    /\ pc = "main"
    /\ LET r == parse_channel_list(args.channels)
       IN  IF r.ok
           THEN /\ explicit_channels' = r.channels
                /\ pc' = "parsed"
                /\ err' = err
           ELSE /\ explicit_channels' = explicit_channels
                /\ pc' = "exit1"
                /\ err' = "ValueError"
    /\ UNCHANGED <<decodeVars, songVars, onsetVars, playerVars, caller, args,
                   voice_channels, events, lines, output>>

\* a song is never taken to be without notes
NeverWithoutNotes(ns) == FALSE

\* line 622: not song.notes
WithoutNotes(ns) == ns = <<>>

\* lines 622-624: a song without notes is reported and main returns 1
CheckNotes ==
    /\ pc = "parsed"
    /\ caller = "main"
    /\ pc' = IF WithoutNotes(notes) THEN "exit1" ELSE "select"
    /\ UNCHANGED <<err, decodeVars, songVars, mainVars, onsetVars, playerVars>>

\* line 626
ChooseVoiceChannels ==
    /\ pc = "select"
    /\ voice_channels' = choose_voice_channels(notes, args.voices, explicit_channels)
    /\ pc' = "emit"
    /\ UNCHANGED <<err, decodeVars, songVars, onsetVars, playerVars, caller, args,
                   explicit_channels, events, lines, output>>

\* lines 628-640, or a call of emit_basic on its own
EmitBasic ==
    /\ pc = "emit"
    /\ LET r == emit_basic(Song, args.title, args.input_name, args.voices,
                           voice_channels, args.chord_policy, args.tempo_mode,
                           args.bpm, args.volume, args.tail_ticks,
                           IF caller = "main" THEN Max(40, args.max_line_len)
                           ELSE args.max_line_len)
       IN  /\ events' = r.events
           /\ lines' = r.lines
           /\ err' = r.err
           /\ pc' = IF r.err # "none" THEN "raised"
                    ELSE IF caller = "main" THEN "write" ELSE "returned"
    /\ UNCHANGED <<decodeVars, songVars, onsetVars, playerVars, caller, args,
                   explicit_channels, voice_channels, output>>

\* lines 642-674: the program is written and main returns 0
WriteOutput ==
    /\ pc = "write"
    /\ output' = lines
    /\ pc' = "exit0"
    /\ UNCHANGED <<err, decodeVars, songVars, onsetVars, playerVars, caller, args,
                   explicit_channels, voice_channels, events, lines>>

----------------------------------------------------------------------------
(* The songs and command lines of Spec. *)

\* the largest start tick of a note
MaxStart == 2
\* the most notes of a song
MaxNotes == 2
\* the most parts of a --channels argument
MaxParts == 3

\* a short low note or a long high one, on channel 0 or 1
NoteDomain ==
    {NoteEvent(s, s + k[1], ch, k[2], 64) :
        s \in 0..MaxStart, ch \in {0, 1}, k \in {<<1, 60>>, <<2, 64>>}}

RECURSIVE NoteSeqs(_)
NoteSeqs(n) ==
    IF n = 0 THEN {<<>>}
    ELSE LET shorter == NoteSeqs(n - 1)
         IN  shorter \cup {Append(ns, x) : ns \in shorter, x \in NoteDomain}

\* the least final tick parse_midi can return with these notes
LastEnd(ns) ==
    IF ns = <<>> THEN 0
    ELSE CHOOSE e \in {ns[i].end_tick : i \in 1..Len(ns)} :
            \A i \in 1..Len(ns) : ns[i].end_tick <= e

TempoLists ==
    { <<[tick |-> 0, bpm |-> 120]>>,
      <<[tick |-> 0, bpm |-> 120], [tick |-> 2, bpm |-> 90]>>,
      <<[tick |-> 1, bpm |-> 100], [tick |-> 9, bpm |-> 60]>> }

TimeSignatures ==
    { [numerator |-> 4, denominator |-> 4],
      [numerator |-> 3, denominator |-> 8],
      [numerator |-> 1, denominator |-> 32] }

SongOf(pq, ns, tps, ts, end_tick) ==
    [ppqn |-> pq, notes |-> ns, tempos |-> tps, time_signature |-> ts,
     end_tick |-> end_tick]

Start(who, sg, a, vchans) ==
    /\ caller = who
    /\ args = a
    /\ voice_channels = vchans
    /\ ppqn = sg.ppqn
    /\ notes = sg.notes
    /\ tempos = sg.tempos
    /\ time_signature = sg.time_signature
    /\ song_end_tick = sg.end_tick
    /\ pc = IF who = "main" THEN "main" ELSE "emit"

\* every short song, under the voice counts and tempo modes
ScheduleStarts ==
    \E ns \in NoteSeqs(MaxNotes),
       tps \in { <<[tick |-> 0, bpm |-> 120], [tick |-> 2, bpm |-> 90]>> },
       slack \in {0, 1}, v \in {1, 2}, tm \in {"fixed", "track"} :
        Start("main",
              SongOf(2, ns, tps, [numerator |-> 4, denominator |-> 4],
                     LastEnd(ns) + slack),
              [DefaultArgs EXCEPT !.voices = v, !.tempo_mode = tm], <<>>)

SampleNotes ==
    { <<NoteEvent(0, 2, 0, 60, 64)>>,
      <<NoteEvent(1, 2, 1, 64, 64), NoteEvent(1, 3, 1, 60, 64),
        NoteEvent(0, 3, 0, 67, 64)>>,
      <<NoteEvent(2, 9, 3, 60, 64), NoteEvent(9, 11, 3, 62, 64),
        NoteEvent(9, 12, 0, 72, 64), NoteEvent(11, 12, 3, 64, 64)>> }

\* a few songs under every configuration
ConfigStarts ==
    \E ns \in SampleNotes, tps \in TempoLists,
       ts \in TimeSignatures, v \in 1..4, cp \in {"high", "low", "first"},
       tm \in {"fixed", "track"}, tail \in {-1, 0, 2}, mll \in {30, 68},
       bpm \in {None, 0} :
        Start("main", SongOf(2, ns, tps, ts, LastEnd(ns)),
              [DefaultArgs EXCEPT !.voices = v, !.chord_policy = cp,
                                  !.tempo_mode = tm, !.tail_ticks = tail,
                                  !.max_line_len = mll, !.bpm = bpm], <<>>)

\* the parts of a --channels argument, as raw.split(",") gives them
Parts ==
    { <<"1">>, <<"2">>, <<"1", "6">>, <<"1", "7">>, <<"0">>, <<>>,
      <<" ", "3", " ">>, <<"x">>, <<"-", "1">> }

RECURSIVE PartSeqs(_)
PartSeqs(n) ==
    IF n = 1 THEN {<<part>> : part \in Parts}
    ELSE LET shorter == PartSeqs(n - 1)
         IN  shorter \cup {Append(raw, part) : raw \in shorter, part \in Parts}

\* every --channels argument, under every voice count
ChannelStarts ==
    \E ns \in { <<NoteEvent(0, 2, 0, 60, 64)>>,
                 <<NoteEvent(0, 1, 5, 60, 64), NoteEvent(1, 2, 2, 64, 64),
                   NoteEvent(2, 3, 5, 67, 64)>> },
       v \in 1..4, raw \in PartSeqs(MaxParts) \cup {NoArg} :
        Start("main",
              SongOf(2, ns, <<[tick |-> 0, bpm |-> 120]>>,
                     [numerator |-> 4, denominator |-> 4], LastEnd(ns)),
              [DefaultArgs EXCEPT !.voices = v, !.channels = raw], <<>>)

\* resolution 480, 120 BPM, 4/4, pitch 60 from 0 to 480, pitch 64 from 480
\* to 960, one voice, fixed tempo, no tail
ScenarioSong ==
    SongOf(480,
           <<NoteEvent(0, 480, 0, 60, 64), NoteEvent(480, 960, 0, 64, 64)>>,
           <<[tick |-> 0, bpm |-> 120]>>,
           [numerator |-> 4, denominator |-> 4], 960)

ScenarioStarts ==
    \E tail \in {0, 240} :
        Start("main", ScenarioSong,
              [DefaultArgs EXCEPT !.voices = 1, !.tail_ticks = tail], <<>>)

\* rows of four-digit values: a short note of channel 0 at tick 0 or 1000,
\* then four notes of pitch 84 from tick 1000 to 2000
WideSong(first) ==
    SongOf(480,
           <<NoteEvent(first, first + 480, 0, 60, 64)>>
           \o [ch \in 1..4 |-> NoteEvent(1000, 2000, ch - 1, 84, 64)],
           <<[tick |-> 0, bpm |-> 120]>>,
           [numerator |-> 4, denominator |-> 4], 2000)

WideStarts ==
    \E first \in {0, 1000}, v \in {1, 4}, mll \in {54, 56, 68} :
        Start("main", WideSong(first),
              [DefaultArgs EXCEPT !.voices = v, !.max_line_len = mll], <<>>)

\* emit_basic called on its own: songs with and without notes, and voice
\* channels as the caller gives them
DirectStarts ==
    \E ns \in NoteSeqs(1), tps \in TempoLists, slack \in {0, 3},
       tm \in {"fixed", "track"}, tail \in {0, 2},
       vchans \in {<<0>>, <<1, 0>>, <<0, 0>>} :
        Start("direct", SongOf(2, ns, tps, [numerator |-> 4, denominator |-> 4],
                               LastEnd(ns) + slack),
              [DefaultArgs EXCEPT !.voices = Len(vchans), !.tempo_mode = tm,
                                  !.tail_ticks = tail], vchans)

Starts ==
    \/ ScheduleStarts
    \/ ConfigStarts
    \/ ChannelStarts
    \/ ScenarioStarts
    \/ WideStarts
    \/ DirectStarts

----------------------------------------------------------------------------
(* Spec: main from parse_channel_list on, and emit_basic on its own. *)

Init ==
    /\ Starts
    /\ err = "none"
    /\ explicit_channels = <<>>
    /\ events = <<>>
    /\ lines = <<>>
    /\ output = <<>>
    /\ DecodeIdle
    /\ OnsetsIdle
    /\ PlayerIdle

Next ==
    \/ ParseChannels
    \/ CheckNotes
    \/ ChooseVoiceChannels
    \/ EmitBasic
    \/ WriteOutput
    \/ MainExcept

Spec == Init /\ [][Next]_vars

----------------------------------------------------------------------------
(* SpecOnsets: select_monophonic_onsets, the loop of line 336 a note at a  *)
(* time.                                                                   *)

\* the longest note of the chords, in ticks
MaxChordDur == 2

\* three notes of channel 0 that start together with pitches 60, 64 and 67,
\* in every order and with every end tick
ChordNotes ==
    {<<NoteEvent(T, T + d[1], 0, p[1], 64), NoteEvent(T, T + d[2], 0, p[2], 64),
       NoteEvent(T, T + d[3], 0, p[3], 64)>> :
        T \in {0, 3},
        d \in [1..3 -> 1..MaxChordDur],
        p \in {q \in [1..3 -> {60, 64, 67}] : {q[1], q[2], q[3]} = {60, 64, 67}}}

\* a chord after a note of another channel and before a later note
ChordInSong ==
    {<<NoteEvent(0, 1, 1, 72, 64)>> \o c \o <<NoteEvent(5, 6, 0, 48, 64)>> :
        c \in ChordNotes}

InitOnsets ==
    /\ notes \in NoteSeqs(MaxNotes) \cup ChordNotes \cup ChordInSong
    /\ sel_channel \in {0, 1}
    /\ \E cp \in {"high", "low", "first"} :
          args = [DefaultArgs EXCEPT !.chord_policy = cp]
    /\ pc = "sort"
    /\ err = "none"
    /\ sorted_notes = <<>>
    /\ note_index = 0
    /\ onsets = NoOnsets
    /\ ppqn = 2
    /\ tempos = <<[tick |-> 0, bpm |-> 120]>>
    /\ time_signature = [numerator |-> 4, denominator |-> 4]
    /\ song_end_tick = LastEnd(notes)
    /\ caller = "direct"
    /\ explicit_channels = <<>>
    /\ PlayerIdle
    /\ voice_channels = <<>>
    /\ events = <<>>
    /\ lines = <<>>
    /\ output = <<>>
    /\ DecodeIdle

\* lines 334-336: onsets = {} and the sorted list
SortNotes ==
    /\ pc = "sort"
    /\ sorted_notes' = SortedNotes(notes)
    /\ note_index' = 0
    /\ onsets' = NoOnsets
    /\ pc' = "loop"
    /\ UNCHANGED <<err, decodeVars, songVars, mainVars, sel_channel,
                   playerVars>>

\* lines 337-354: the next note of the sorted list
TakeNote ==
    /\ pc = "loop"
    /\ note_index < Len(sorted_notes)
    /\ onsets' = OnsetStep(onsets, sorted_notes[note_index + 1], sel_channel,
                           args.chord_policy)
    /\ note_index' = note_index + 1
    /\ UNCHANGED <<pc, err, decodeVars, songVars, mainVars, sel_channel,
                   sorted_notes, playerVars>>

\* line 356
ReturnOnsets ==
    /\ pc = "loop"
    /\ note_index = Len(sorted_notes)
    /\ pc' = "returned"
    /\ UNCHANGED <<err, decodeVars, songVars, mainVars, onsetVars, playerVars>>

NextOnsets ==
    \/ SortNotes
    \/ TakeNote
    \/ ReturnOnsets

SpecOnsets == InitOnsets /\ [][NextOnsets]_vars

----------------------------------------------------------------------------
(* Properties of parse_midi, checked under SpecParse. *)

\* one key struck at d1, struck again d2 later, released d3 later and
\* released again d4 later
StackingFile(d1, d2, d3, d4) ==
    Header(1, 480)
    \o Chunk(<<d1>> \o NoteOnBytes \o <<d2>> \o NoteOnBytes
             \o <<d3>> \o NoteOffBytes \o <<d4>> \o NoteOffBytes)

Spans(ns) == {<<ns[i].start_tick, ns[i].end_tick>> : i \in 1..Len(ns)}

OneKey(ns) == \A i \in 1..Len(ns) : ns[i].channel = 0 /\ ns[i].note = 60

\* C1 as stated: on at 0, on at 5, off at 8 and off at 12 for one key give
\* exactly two notes, with the spans (0,8) and (5,12)
C1_StackingFifo ==
    (pc = "parsed" /\ data = StackingFile(0, 5, 3, 4))
        => (Len(notes) = 2 /\ OneKey(notes) /\ Spans(notes) = {<<0, 8>>, <<5, 12>>})

\* C1 as the code has it: on at 0, on at 5, off at 8 and off at 12 for one
\* key give exactly two notes, with the spans (5,8) and (0,12); each note-off
\* closes the entry opened last
C1_StackingLifo ==
    (pc = "parsed" /\ data = StackingFile(0, 5, 3, 4))
        => (Len(notes) = 2 /\ OneKey(notes) /\ Spans(notes) = {<<5, 8>>, <<0, 12>>})

C1_StackingParsed ==
    pc = "parsed" /\ data = StackingFile(0, 5, 3, 4) /\ Len(notes) = 2

\* C3: parse_midi returns a Song or raises MidiParseError, which main
\* reports; no other exception leaves it, whatever the bytes of the file
C3_DecoderTotal ==
    /\ err \in {"none", "MidiParseError"}
    /\ pc # "uncaught"

\* C4: when a track chunk, a meta event or a system-exclusive event declares
\* more bytes than are left, parse_midi does not return a Song
C4_TruncationDetected == pc = "parsed" => ~overrun

----------------------------------------------------------------------------
(* Properties of select_monophonic_onsets, checked under SpecOnsets. *)

\* the notes of ns on channel ch that start at tick t
StartingAt(ns, ch, t) ==
    {ns[i] : i \in {j \in 1..Len(ns) :
                        ns[j].channel = ch /\ ns[j].start_tick = t}}

\* the songs with three notes of channel 0 starting together with the
\* pitches 60, 64 and 67, and the tick of the chord
HasChord == notes \in ChordNotes \cup ChordInSong
ChordTick == IF notes \in ChordNotes THEN notes[1].start_tick ELSE notes[2].start_tick

FirstOfChord ==
    /\ pc = "returned"
    /\ HasChord
    /\ sel_channel = 0
    /\ args.chord_policy = "first"

\* C7 as stated: of three notes of a channel that start together with the
\* pitches 60, 64 and 67, policy first records the one of pitch 60, whatever
\* their end ticks and their order in the song
C7_FirstPicksLowest == FirstOfChord => onsets[ChordTick].note = 60

\* C7 as the code has it: of three notes of a channel that start together
\* with the pitches 60, 64 and 67, policy first records the one that ends
\* first, and the lowest-pitched of those that end first together, whatever
\* their order in the song
C7_FirstPicksEarliestEnd ==
    FirstOfChord =>
        LET chord == StartingAt(notes, 0, ChordTick)
            w     == onsets[ChordTick]
        IN  /\ w \in chord
            /\ \A n \in chord :
                  \/ w.end_tick < n.end_tick
                  \/ w.end_tick = n.end_tick /\ w.note <= n.note

C7_FirstRecordsHighest == FirstOfChord /\ onsets[ChordTick].note = 67

\* C8: under policy high (low) the note recorded at a tick has the greatest
\* (least) pitch of the channel's notes that start at that tick, whatever
\* their end ticks and order; the map has one entry for every start tick of
\* the channel and none for the notes of other channels
C8_HighLowExtremal ==
    (pc = "returned" /\ args.chord_policy \in {"high", "low"}) =>
        /\ DOMAIN onsets =
              {notes[i].start_tick :
                  i \in {j \in 1..Len(notes) : notes[j].channel = sel_channel}}
        /\ \A t \in DOMAIN onsets :
              /\ onsets[t] \in StartingAt(notes, sel_channel, t)
              /\ \A n \in StartingAt(notes, sel_channel, t) :
                    IF args.chord_policy = "high"
                    THEN onsets[t].note >= n.note
                    ELSE onsets[t].note <= n.note

C8_HighestOfChord ==
    /\ pc = "returned"
    /\ notes \in ChordInSong
    /\ sel_channel = 0
    /\ args.chord_policy = "high"
    /\ notes[2].note = 60
    /\ notes[2].end_tick > notes[3].end_tick
    /\ onsets[ChordTick].note = 67
    /\ DOMAIN onsets = {ChordTick, 5}

----------------------------------------------------------------------------
(* Properties of main and emit_basic, checked under Spec. *)

\* emit_basic has returned its lines
Emitted == pc \in {"write", "exit0", "returned"}

\* the scenario: the two-note song of resolution 480, one voice, fixed tempo,
\* no tail
Scenario ==
    /\ Emitted
    /\ Song = ScenarioSong
    /\ args.voices = 1
    /\ args.tempo_mode = "fixed"
    /\ args.tail_ticks = 0

\* the rows of the DATA lines of a program, in the order of the lines
RECURSIVE DataRows(_)
DataRows(lns) ==
    IF lns = <<>> THEN <<>>
    ELSE DataRows(SubSeq(lns, 1, Len(lns) - 1))
         \o (IF lns[Len(lns)].kind = "DATA" THEN lns[Len(lns)].rows ELSE <<>>)

\* C2 as stated: the scenario gives exactly two data rows, (0,0,262,480) and
\* (480,0,294,480), then the sentinel row
C2_ScenarioTwoRows ==
    Scenario =>
        /\ events = << <<0, 0, 262, 480>>, <<480, 0, 294, 480>> >>
        /\ DataRows(lines) = Append(events, <<-1, 0, 0, 0>>)

\* C2 as the code has it: the scenario gives exactly three data rows,
\* (0,0,262,480), (480,0,330,480) and the row of the closing tick
\* (480,0,0,0), then the sentinel row
C2_ScenarioThreeRows ==
    Scenario =>
        /\ events = << <<0, 0, 262, 480>>, <<480, 0, 330, 480>>,
                       <<480, 0, 0, 0>> >>
        /\ DataRows(lines) = Append(events, <<-1, 0, 0, 0>>)

C2_ScenarioWritten == Scenario /\ pc = "exit0" /\ Len(events) = 3

\* C5: the channels chosen for N voices, with or without --channels, are
\* exactly N indices in 0..15, no two the same
C5_ChannelsDistinct ==
    (pc = "emit" /\ caller = "main") =>
        /\ Len(voice_channels) = args.voices
        /\ \A i \in 1..Len(voice_channels) : voice_channels[i] \in 0..15
        /\ \A i, j \in 1..Len(voice_channels) :
              i # j => voice_channels[i] # voice_channels[j]

\* the parts of a --channels argument that are integers
ChannelTokens(raw) ==
    {i \in 1..Len(raw) : Strip(raw[i]) # <<>> /\ IntOf(Strip(raw[i])).ok}

GivenChannel(raw, i) == IntOf(Strip(raw[i])).value

OutOfRange(raw) == \E i \in ChannelTokens(raw) : GivenChannel(raw, i) \notin 1..16

Duplicated(raw) ==
    \E i, j \in ChannelTokens(raw) :
        i < j /\ GivenChannel(raw, i) = GivenChannel(raw, j)

\* C6: a --channels argument that names a channel twice, or a channel
\* outside 1..16, ends the conversion with a failure and nothing is written
C6_BadChannelsRejected ==
    (caller = "main" /\ args.channels # NoArg
        /\ (OutOfRange(args.channels) \/ Duplicated(args.channels)))
        => (pc # "exit0" /\ output = <<>>)

\* C9: when emit_basic succeeds, the rows of its DATA lines are the data
\* rows, each with a wait of 0 or more, and then one sentinel row: wait -1,
\* every other field 0, as many fields as a data row; the sentinel row is the
\* last row of the last DATA line
C9_SentinelTermination ==
    Emitted =>
        LET rows == DataRows(lines)
            n    == Len(rows)
            last == lines[Len(lines)]
        IN  /\ n >= 1
            /\ SubSeq(rows, 1, n - 1) = events
            /\ rows[n][1] = -1
            /\ \A k \in 2..Len(rows[n]) : rows[n][k] = 0
            /\ Len(rows[n]) = 2 + 2 * args.voices
            /\ \A i \in 1..(n - 1) :
                  rows[i][1] >= 0 /\ Len(rows[i]) = Len(rows[n])
            /\ last.kind = "DATA"
            /\ last.rows[Len(last.rows)] = rows[n]

C9_SentinelAfterRows ==
    /\ pc = "exit0"
    /\ args.voices = 3
    /\ Len(events) >= 2
    /\ Len(DataRows(output)) = Len(events) + 1

\* C10: the ticks of the rows emit_basic builds are strictly ascending: every
\* row but the first has a wait above 0, under every voice count, tempo mode
\* and tail
C10_TimelineAscending ==
    /\ events # <<>> => events[1][1] >= 0
    /\ \A i \in 2..Len(events) : events[i][1] > 0

C10_TempoAndTailRows ==
    /\ pc = "exit0"
    /\ args.tempo_mode = "track"
    /\ args.tail_ticks = 2
    /\ args.voices >= 2
    /\ Len(events) >= 4
    /\ \E i \in 2..Len(events) : events[i][2] # 0

\* the max_line_len emit_basic is called with, line 639
GivenMaxLineLen ==
    IF caller = "main" THEN Max(40, args.max_line_len) ELSE args.max_line_len

\* C11: when emit_basic returns, no line, its line number included, is
\* longer than max_line_len, and every DATA line is made of one or more whole
\* rows of 2 + 2 * voices values
C11_LineBoundRowAtomicity ==
    Emitted =>
        \A k \in 1..Len(lines) :
            /\ Len(lines[k].text) <= GivenMaxLineLen
            /\ lines[k].kind = "DATA" =>
                  /\ Len(lines[k].rows) >= 1
                  /\ \A r \in 1..Len(lines[k].rows) :
                        Len(lines[k].rows[r]) = 2 + 2 * args.voices
                  /\ lines[k].text =
                        ToString(lines[k].no) \o " DATA "
                        \o Join([r \in 1..Len(lines[k].rows) |->
                                    Csv(lines[k].rows[r])])

\* a row that did not fit was put on a DATA line of its own
C11_RowsSplitOverLines ==
    /\ pc = "exit0"
    /\ \E k \in 1..(Len(lines) - 1) :
          /\ lines[k].kind = "DATA"
          /\ lines[k + 1].kind = "DATA"
          /\ Len(lines[k].rows) >= 2
          /\ lines[k + 1].rows # <<Sentinel(args.voices)>>

\* a row that, after the prefix of a DATA line, is longer than max_line_len
Wide(row) == Len("2010 DATA ") + Len(Csv(row)) > GivenMaxLineLen

\* emit_basic has built its rows
RowsBuilt == pc \in {"write", "exit0", "returned", "raised", "exit1", "uncaught"}
                /\ events # <<>>

\* C12: when one row alone, after the prefix of a DATA line, is longer than
\* max_line_len, emit_basic raises an error and returns no text; main writes
\* nothing
C12_WideRowFails ==
    (RowsBuilt /\ \E i \in 1..Len(events) : Wide(events[i])) =>
        /\ ~Emitted
        /\ err # "none"
        /\ lines = <<>>
        /\ output = <<>>

\* a wide row after a row that fits, with a max_line_len that the rest of
\* the program fits in
C12_WideRowAfterNarrow ==
    /\ pc = "exit1"
    /\ err = "RuntimeError"
    /\ args.max_line_len = 54
    /\ args.voices = 4
    /\ Len(events) >= 2
    /\ ~Wide(events[1])
    /\ Wide(events[2])

\* C13: every note of a Song parse_midi returns ends after it starts, starts
\* at tick 0 or later, and has a channel in 0..15, a pitch in 0..127 and a
\* velocity in 1..127
C13_NotesWellFormed ==
    pc = "parsed" =>
        \A i \in 1..Len(notes) :
            /\ notes[i].end_tick > notes[i].start_tick
            /\ notes[i].start_tick >= 0
            /\ notes[i].channel \in 0..15
            /\ notes[i].note \in 0..127
            /\ notes[i].velocity \in 1..127

\* the data bytes of a channel event of this status
DataBytes(status) == IF status \div 16 \in {12, 13} THEN 1 ELSE 2

\* the track trk, of events with one-byte deltas and one-byte lengths, from
\* its place p on (1-based), with the status byte put before every channel
\* event that leaves it out; running is the last channel status
RECURSIVE WithStatus(_, _, _)
WithStatus(trk, p, running) ==
    IF p >= Len(trk) THEN SubSeq(trk, p, Len(trk))
    ELSE LET b == trk[p + 1]
         IN  IF b = 255
             THEN SubSeq(trk, p, p + 3 + trk[p + 3])
                  \o WithStatus(trk, p + 4 + trk[p + 3], running)
             ELSE IF b = 240
             THEN SubSeq(trk, p, p + 2 + trk[p + 2])
                  \o WithStatus(trk, p + 3 + trk[p + 2], running)
             ELSE IF b >= 128
             THEN SubSeq(trk, p, p + 1 + DataBytes(b))
                  \o WithStatus(trk, p + 2 + DataBytes(b), b)
             ELSE <<trk[p], running>>
                  \o SubSeq(trk, p + 1, p + DataBytes(running))
                  \o WithStatus(trk, p + 1 + DataBytes(running), running)

\* a file of the running-status family, and the bytes of its track
UnderRunningStatus == Slice(data, 0, 14) = Header(1, 192)
TrackBytes == Slice(data, 22, Len(data))

\* C14: a track whose channel events after the first leave out the status
\* byte, with meta and system-exclusive events between them, decodes to the
\* notes, tempos and final tick of the same track with the status byte before
\* every channel event
C14_RunningStatusSame ==
    (UnderRunningStatus /\ pc \in {"parsed", "raised"}) =>
        LET twin == DecodeTrack(WithStatus(TrackBytes, 1, None))
        IN  /\ twin.err = err
            /\ pc = "parsed" =>
                  /\ notes = twin.notes
                  /\ tempos = twin.tempos
                  /\ song_end_tick = twin.end_tick

\* a note closed under running status after a tempo and a system-exclusive
\* event
C14_NoteAcrossMeta ==
    /\ pc = "parsed"
    /\ TrackBytes = <<0, 144, 60, 64,  2, 255, 81, 3, 7, 161, 32,
                      0, 240, 2, 1, 247,  2, 60, 0>>
    /\ Len(WithStatus(TrackBytes, 1, None)) = Len(TrackBytes) + 1
    /\ Len(notes) = 1
    /\ notes[1].end_tick = 4

----------------------------------------------------------------------------
(* SpecVlq: read_vlq(track, pos), as line 140 calls it, on encoded numbers. *)

\* the most bytes of an encoded number
MaxVlqBytes == 3

\* the standard encoding of n: seven bits a byte, the most significant
\* first, the high bit set on every byte but the last
RECURSIVE VlqHead(_)
VlqHead(n) ==
    IF n = 0 THEN <<>> ELSE VlqHead(n \div 128) \o <<128 + (n % 128)>>

VlqEncode(n) == VlqHead(n \div 128) \o <<n % 128>>

\* the numbers around every length of encoding
VlqValues ==
    {0, 1, 64, 127}
    \cup UNION {{Pow2(7 * k) - 1, Pow2(7 * k), Pow2(7 * k) + 77,
                 2 * Pow2(7 * k) - 1} : k \in 1..(MaxVlqBytes - 1)}
    \cup {Pow2(7 * MaxVlqBytes) - 1}

\* an encoded number between other bytes, or cut before its last byte with
\* nothing but bytes of high bit 1 behind it
InitVlq ==
    /\ \E n \in VlqValues, before \in {<<>>, <<0>>, <<129, 5>>} :
          \/ \E after \in {<<>>, <<0>>, <<255>>, <<1, 129>>} :
                track = before \o VlqEncode(n) \o after
          \/ \E after \in {<<>>, <<255>>} :
                track = before \o VlqHead(n \div 128) \o after
          /\ pos = Len(before)
          /\ offset = Len(before)
    /\ vlq_value = 0
    /\ pc = "vlq"
    /\ err = "none"
    /\ caller = "direct"
    /\ data = <<>>
    /\ track_count = 0
    /\ track_index = 0
    /\ tick = 0
    /\ running_status = None
    /\ active = <<>>
    /\ overrun = FALSE
    /\ ppqn = 0
    /\ notes = <<>>
    /\ tempos = <<>>
    /\ time_signature = [numerator |-> 4, denominator |-> 4]
    /\ song_end_tick = 0
    /\ args = DefaultArgs
    /\ explicit_channels = <<>>
    /\ voice_channels = <<>>
    /\ events = <<>>
    /\ lines = <<>>
    /\ output = <<>>
    /\ OnsetsIdle
    /\ PlayerIdle

\* lines 76-85: the call returns (value, offset) or raises MidiParseError
ReadVlq ==
    /\ pc = "vlq"
    /\ LET r == read_vlq(track, pos)
       IN  /\ vlq_value' = r.value
           /\ offset' = r.offset
           /\ pc' = IF r.ok THEN "returned" ELSE "raised"
           /\ err' = IF r.ok THEN err ELSE "MidiParseError"
    /\ UNCHANGED <<data, track_count, track_index, track, pos, tick,
                   running_status, active, overrun, songVars, mainVars,
                   onsetVars, playerVars>>

NextVlq == ReadVlq

SpecVlq == InitVlq /\ [][NextVlq]_vars

\* C15: read_vlq on the standard encoding of n returns n and the offset
\* just past the encoding; on bytes that all have the high bit set up to the
\* end of the buffer it raises MidiParseError and has not gone past the end
C15_VlqRoundTrip ==
    pc \in {"returned", "raised"} =>
        /\ \A n \in VlqValues :
              Slice(track, pos, pos + Len(VlqEncode(n))) = VlqEncode(n) =>
                  /\ pc = "returned"
                  /\ vlq_value = n
                  /\ offset = pos + Len(VlqEncode(n))
        /\ (\A i \in (pos + 1)..Len(track) : track[i] >= 128) =>
              /\ pc = "raised"
              /\ err = "MidiParseError"
              /\ offset <= Len(track)

\* a number of three bytes was read from the middle of a buffer
C15_ThreeBytesRead ==
    /\ pc = "returned"
    /\ pos = 2
    /\ offset = 5
    /\ offset < Len(track)
    /\ vlq_value = Pow2(14) + 77

\* the encoding was cut before its last byte
C15_CutEncodingRaised ==
    /\ pc = "raised"
    /\ Len(track) > pos + 1

\* the tempo list after, given the tempo events decoded in file order before
TempoListOf(before, after) ==
    /\ after # <<>>
    /\ \A k \in 1..(Len(after) - 1) : after[k].tick < after[k + 1].tick
    /\ before = <<>> => after = <<[tick |-> 0, bpm |-> 120]>>
    /\ before # <<>> =>
          /\ {after[k].tick : k \in 1..Len(after)}
                = {before[i].tick : i \in 1..Len(before)}
          /\ \A k \in 1..Len(after) :
                \E i \in 1..Len(before) :
                    /\ before[i] = after[k]
                    /\ \A j \in (i + 1)..Len(before) :
                          before[j].tick # after[k].tick

\* C16: the tempo list of the Song is not empty and strictly ascending by
\* tick; at a tick with several tempo events the last one in file order
\* stays, later tracks after earlier ones; with no tempo event decoded the
\* list is (tick 0, 120 BPM) alone
C16_TempoList ==
    [][(pc = "finish" /\ pc' = "parsed") => TempoListOf(tempos, tempos')]_vars

\* the tempo of the second track at tick 0 replaced the one of the first
C16_LaterTrackWins ==
    /\ pc = "parsed"
    /\ data = Header(2, 96)
              \o Chunk(<<0, 255, 81, 3, 7, 161, 32,  2, 144, 60, 64>>)
              \o Chunk(<<0, 255, 81, 3, 15, 66, 64>>)
    /\ tempos = <<[tick |-> 0, bpm |-> 60]>>

----------------------------------------------------------------------------
(* SpecPipeline: main from parse_midi on, line 620, and then main called   *)
(* again on the same file with the same arguments; what the first call     *)
(* left in the variables is still there when the second starts.            *)

\* the most note events of a one-track file of SpecPipeline
MaxPipelineEvents == 3

\* one track: a time signature, then key 60 from tick 0 to tick 1, under
\* resolutions from 1 up
BarFile ==
    \E q \in {1, 2, 96}, n \in {1, 3}, d \in {2, 3, 5} :
        data = Header(1, q)
               \o Chunk(<<0, 255, 88, 4, n, d, 24, 8,
                          0, 144, 60, 64,  1, 128, 60, 0,  0, 255, 47, 0>>)

InitPipeline ==
    /\ \/ \E b \in Bodies(NoteFrags, MaxPipelineEvents) :
             data = Header(1, 480) \o Chunk(b)
       \/ BarFile
       \/ TwoTrackFile
       \/ TruncatedFile
       \/ data \in HeaderFiles
    /\ pc = "start"
    /\ err = "none"
    /\ offset = 0
    /\ ppqn = 0
    /\ track_count = 0
    /\ track_index = 0
    /\ track = <<>>
    /\ pos = 0
    /\ tick = 0
    /\ running_status = None
    /\ active = <<>>
    /\ notes = <<>>
    /\ tempos = <<>>
    /\ time_signature = [numerator |-> 4, denominator |-> 4]
    /\ song_end_tick = 0
    /\ overrun = FALSE
    /\ vlq_value = 0
    /\ caller = "main"
    /\ \E c \in {<<1, "fixed", "high", 0>>, <<2, "track", "first", 2>>,
                 <<2, "fixed", "low", -1>>} :
          args = [DefaultArgs EXCEPT !.voices = c[1], !.tempo_mode = c[2],
                                     !.chord_policy = c[3], !.tail_ticks = c[4]]
    /\ explicit_channels \in {<<>>, <<1, 0>>}
    /\ voice_channels = <<>>
    /\ events = <<>>
    /\ lines = <<>>
    /\ output = <<>>
    /\ OnsetsIdle
    /\ PlayerIdle

\* main is called again when it has returned 0
RunAgain ==
    /\ pc = "exit0"
    /\ pc' = "start"
    /\ UNCHANGED <<err, decodeVars, songVars, mainVars, onsetVars, playerVars>>

NextPipeline ==
    \/ ParseHeader
    \/ ParseTrackHeader
    \/ DecodeEvent
    \/ CloseTrack
    \/ FinishParse
    \/ CheckNotes
    \/ ChooseVoiceChannels
    \/ EmitBasic
    \/ WriteOutput
    \/ MainExcept
    \/ RunAgain

SpecPipeline == InitPipeline /\ [][NextPipeline]_vars

----------------------------------------------------------------------------
(* SpecPlayer: main, then a NovaBASIC interpreter running the program main
   wrote.  The interpreter is not part of src/: a statement is recognised by
   its text, lines run in order of the program, READ takes as many DATA
   values as it names variables, a variable never assigned is 0, and a
   transfer to a line number the program does not have either stops the run
   with an error or goes on at the next higher line, as BASIC dialects
   differ. *)

Is(ln, body) == ln.text = ToString(ln.no) \o " " \o body

\* the statement of a line: [op, n, target]; n is the number of variables of
\* READ or the voice of IF Fn=0, target the line number the statement names
Statement(ln) ==
    IF \E v \in 1..4 : Is(ln, "READ W,T," \o Join([i \in 1..v |->
                              "F" \o ToString(i - 1) \o ",D" \o ToString(i - 1)]))
    THEN [op |-> "READ",
          n |-> CHOOSE k \in {4, 6, 8, 10} :
                  Is(ln, "READ W,T," \o Join([i \in 1..((k - 2) \div 2) |->
                         "F" \o ToString(i - 1) \o ",D" \o ToString(i - 1)])),
          target |-> 0]
    ELSE IF Is(ln, "RESTORE " \o ToString(ln.target))
    THEN [op |-> "RESTORE", n |-> 0, target |-> ln.target]
    ELSE IF Is(ln, "IF W<0 THEN " \o ToString(ln.target))
    THEN [op |-> "IFW", n |-> 0, target |-> ln.target]
    ELSE IF \E v \in 0..3 :
               Is(ln, "IF F" \o ToString(v) \o "=0 THEN " \o ToString(ln.target))
    THEN [op |-> "IFF",
          n |-> CHOOSE v \in 0..3 :
                   Is(ln, "IF F" \o ToString(v) \o "=0 THEN "
                          \o ToString(ln.target)),
          target |-> ln.target]
    ELSE IF Is(ln, "GOTO " \o ToString(ln.target))
    THEN [op |-> "GOTO", n |-> 0, target |-> ln.target]
    ELSE IF Is(ln, "END") THEN [op |-> "END", n |-> 0, target |-> 0]
    ELSE [op |-> "OTHER", n |-> 0, target |-> 0]

\* the DATA items of the program in the order of its lines, each with the
\* number of its line
RECURSIVE DataItems(_)
DataItems(prog) ==
    IF prog = <<>> THEN <<>>
    ELSE LET ln == prog[Len(prog)]
         IN  DataItems(SubSeq(prog, 1, Len(prog) - 1))
             \o (IF ln.kind # "DATA" THEN <<>>
                 ELSE LET w == Len(ln.rows[1])
                      IN  [k \in 1..(w * Len(ln.rows)) |->
                              [no |-> ln.no,
                               value |-> ln.rows[(k - 1) \div w + 1]
                                                [((k - 1) % w) + 1]]])

\* RESTORE no: the items of the lines below number no are skipped
ItemsBelow(store, no) ==
    Cardinality({k \in 1..Len(store) : store[k].no < no})

\* the value of the k-th variable of the READ statement, 0 while unassigned
BasicValue(vals, k) == IF k <= Len(vals) THEN vals[k] ELSE 0

Player(line, state, ptr, vals, read) ==
    [line |-> line, state |-> state, ptr |-> ptr, vals |-> vals, read |-> read]

\* the run after line i: the next line, or the end of the program
After(prog, i, p) ==
    IF i < Len(prog) THEN [p EXCEPT !.line = i + 1]
    ELSE [p EXCEPT !.line = 0, !.state = "ended"]

\* a transfer to line number t
Transfer(prog, t, p) ==
    IF \E i \in 1..Len(prog) : prog[i].no = t
    THEN {[p EXCEPT !.line = CHOOSE i \in 1..Len(prog) : prog[i].no = t]}
    ELSE {[p EXCEPT !.line = 0, !.state = "stopped"],
          IF \E i \in 1..Len(prog) : prog[i].no > t
          THEN [p EXCEPT !.line = CHOOSE i \in 1..Len(prog) :
                    /\ prog[i].no > t
                    /\ \A j \in 1..Len(prog) :
                          prog[j].no > t => prog[i].no <= prog[j].no]
          ELSE [p EXCEPT !.line = 0, !.state = "ended"]}

\* what running the line p.line can lead to
Execute(prog, store, p) ==
    LET i  == p.line
        st == Statement(prog[i])
    IN  IF st.op = "READ"
        THEN IF p.ptr + st.n > Len(store)
             THEN {[p EXCEPT !.line = 0, !.state = "out_of_data"]}
             ELSE LET got == [k \in 1..st.n |-> store[p.ptr + k].value]
                  IN  {After(prog, i, [p EXCEPT !.ptr = p.ptr + st.n,
                                                !.vals = got,
                                                !.read = Append(p.read, got)])}
        ELSE IF st.op = "RESTORE"
        THEN {After(prog, i, [p EXCEPT !.ptr = ItemsBelow(store, st.target)])}
        ELSE IF st.op = "IFW"
        THEN IF BasicValue(p.vals, 1) < 0 THEN Transfer(prog, st.target, p)
             ELSE {After(prog, i, p)}
        ELSE IF st.op = "IFF"
        THEN IF BasicValue(p.vals, 3 + 2 * st.n) = 0
             THEN Transfer(prog, st.target, p)
             ELSE {After(prog, i, p)}
        ELSE IF st.op = "GOTO" THEN Transfer(prog, st.target, p)
        ELSE IF st.op = "END" THEN {[p EXCEPT !.line = 0, !.state = "ended"]}
        ELSE {After(prog, i, p)}

\* RUN on the program main wrote
RunProgram ==
    /\ pc = "exit0"
    /\ player_state = "off"
    /\ player_state' = "running"
    /\ player_line' = 1
    /\ data_store' = DataItems(output)
    /\ data_ptr' = 0
    /\ basic' = <<>>
    /\ rows_read' = <<>>
    /\ UNCHANGED <<pc, err, decodeVars, songVars, mainVars, onsetVars>>

\* the interpreter runs one line
PlayerStep ==
    /\ player_state = "running"
    /\ \E p \in Execute(output, data_store,
                       Player(player_line, player_state, data_ptr, basic,
                              rows_read)) :
          /\ player_line' = p.line
          /\ player_state' = p.state
          /\ data_ptr' = p.ptr
          /\ basic' = p.vals
          /\ rows_read' = p.read
    /\ UNCHANGED <<pc, err, decodeVars, songVars, mainVars, onsetVars,
                   data_store>>

\* a few songs, with every voice count and DATA lines short and long
PlayerStarts ==
    \E ns \in SampleNotes, v \in 1..4, tm \in {"fixed", "track"},
       mll \in {40, 50, 68} :
        Start("main",
              SongOf(2, ns, <<[tick |-> 0, bpm |-> 120], [tick |-> 2, bpm |-> 90]>>,
                     [numerator |-> 4, denominator |-> 4], LastEnd(ns)),
              [DefaultArgs EXCEPT !.voices = v, !.tempo_mode = tm,
                                  !.max_line_len = mll], <<>>)

InitPlayer ==
    /\ \/ PlayerStarts
       \/ ScenarioStarts
       \/ WideStarts
    /\ err = "none"
    /\ explicit_channels = <<>>
    /\ events = <<>>
    /\ lines = <<>>
    /\ output = <<>>
    /\ DecodeIdle
    /\ OnsetsIdle
    /\ PlayerIdle

NextPlayer ==
    \/ ParseChannels
    \/ CheckNotes
    \/ ChooseVoiceChannels
    \/ EmitBasic
    \/ WriteOutput
    \/ MainExcept
    \/ RunProgram
    \/ PlayerStep

\* the interpreter keeps running the program while it can
SpecPlayer == InitPlayer /\ [][NextPlayer]_vars /\ WF_vars(PlayerStep)

IsPrefix(s, t) == Len(s) <= Len(t) /\ s = SubSeq(t, 1, Len(s))

Halted == player_state \in {"ended", "stopped"}

----------------------------------------------------------------------------
(* The song without notes (SpecPipeline). *)

\* main has gone past its check of song.notes
PastCheck == pc \in {"select", "emit", "write", "exit0", "exit1"}

\* C19: when decoding has succeeded and the song has no notes, main returns
\* 1 with no voice channels chosen, no rows scheduled, no lines built and
\* nothing written
C19_NoNotesAborts ==
    (caller = "main" /\ PastCheck /\ err = "none" /\ notes = <<>>) =>
        /\ pc = "exit1"
        /\ voice_channels = <<>>
        /\ events = <<>>
        /\ lines = <<>>
        /\ output = <<>>

\* main has returned 1 on a file of one track that holds events but no note
C19_TrackWithoutNotes ==
    /\ pc = "exit1"
    /\ err = "none"
    /\ notes = <<>>
    /\ track_count = 1
    /\ Len(track) > 4

----------------------------------------------------------------------------
(* The time signature meta-event (SpecParse). *)

\* the next event of the track is a time signature meta-event of at least two
\* payload bytes, after a delta time of one byte: delta, FF, 58, length,
\* payload
TimeSigNext ==
    /\ pc = "event"
    /\ pos + 6 <= Len(track)
    /\ track[pos + 1] < 128
    /\ track[pos + 2] = 255
    /\ track[pos + 3] = 88
    /\ track[pos + 4] \in 2..127
    /\ pos + 4 + track[pos + 4] <= Len(track)

NumeratorByte == track[pos + 5]
DenominatorByte == track[pos + 6]

\* C20: decoding a time signature meta-event of at least two payload bytes
\* makes the numerator the first payload byte, or 1 when that byte is 0,
\* and the denominator 2 to the power of the second payload byte
C20_TimeSignatureDecoded ==
    [][TimeSigNext =>
          time_signature' =
              [numerator |-> IF NumeratorByte = 0 THEN 1 ELSE NumeratorByte,
               denominator |-> 2 ^ DenominatorByte]]_vars

\* C20 as stated: a numerator byte of 0 leaves the time signature at 4/4,
\* any other event gives the first payload byte over 2 to the power of the
\* second
C20_TimeSignatureDefaulting ==
    [][TimeSigNext =>
          time_signature' =
              IF NumeratorByte = 0 THEN [numerator |-> 4, denominator |-> 4]
              ELSE [numerator |-> NumeratorByte,
                    denominator |-> 2 ^ DenominatorByte]]_vars

\* a file whose time signature event has the numerator byte 0 and the
\* denominator byte 2 has been parsed with the time signature 1/4
C20_NumeratorZeroParsed ==
    /\ pc = "parsed"
    /\ time_signature = [numerator |-> 1, denominator |-> 4]
    /\ notes # <<>>

----------------------------------------------------------------------------
(* Running status and the tracks (SpecParse). *)

\* the next event of the track has a delta time of one byte and a data byte
\* where its status byte would be
DataByteNext ==
    /\ pc = "event"
    /\ pos + 2 <= Len(track)
    /\ track[pos + 1] < 128
    /\ track[pos + 2] < 128

\* no byte of the track before the next event is a channel status byte
\* (0x80 to 0xEF), whatever the place it stands in
NoChannelStatusBefore == \A i \in 1..pos : track[i] \notin 128..239

\* C21: a data byte in status position is a decode error when the track has
\* shown no channel status byte before it, whatever earlier tracks held, and
\* the running status is never a status byte of 0xF0 or above
C21_RunningStatusPerTrack ==
    [][/\ (DataByteNext /\ NoChannelStatusBefore) =>
              (pc' = "raised" /\ err' = "MidiParseError")
       /\ running_status' \notin 240..255]_vars

\* the second track began with a data byte after a first track that began
\* with a note-on, and the decoder has raised
C21_SecondTrackRaised ==
    /\ pc = "raised"
    /\ err = "MidiParseError"
    /\ track_count = 2
    /\ track_index = 1
    /\ Slice(data, 22, 26) = <<0, 144, 60, 64>>
    /\ track = <<0, 60, 64>>

\* a data byte right after a meta event that opens the track is rejected
C21_AfterMetaRaised ==
    /\ pc = "raised"
    /\ err = "MidiParseError"
    /\ track = <<0, 255, 1, 2, 104, 105, 0, 60, 64>>

----------------------------------------------------------------------------
(* The note-off and the open entries of its key (SpecParse). *)

\* the next event of the track is a note-off, or a note-on of velocity 0,
\* with its status byte, after a delta time of one byte
NoteOffNext ==
    /\ pc = "event"
    /\ pos + 4 <= Len(track)
    /\ track[pos + 1] < 128
    /\ \/ track[pos + 2] \in 128..143
       \/ track[pos + 2] \in 144..159 /\ track[pos + 4] = 0

OffTick == tick + track[pos + 1]
OffChannel == track[pos + 2] % 16
OffNote == track[pos + 3]

\* the open entries of a key, the oldest first
StackOf(act, channel, note) ==
    IF \E i \in 1..Len(act) : act[i].channel = channel /\ act[i].note = note
    THEN act[CHOOSE i \in 1..Len(act) :
                 act[i].channel = channel /\ act[i].note = note].stack
    ELSE <<>>

\* C22: a note-off takes the entry opened last for its key off the open
\* entries and appends a note only when its tick is after the tick of that
\* entry, so a note-off at the tick of the note-on appends nothing and the
\* next note-off of the key meets the entry opened before; a note-off whose
\* key has no open entry changes nothing and raises nothing
C22_ZeroDurationClosure ==
    [][NoteOffNext =>
          LET before == StackOf(active, OffChannel, OffNote)
              after  == StackOf(active', OffChannel, OffNote)
          IN  /\ pc' # "raised"
              /\ IF before = <<>>
                 THEN notes' = notes /\ after = <<>>
                 ELSE LET last == before[Len(before)]
                      IN  /\ after = SubSeq(before, 1, Len(before) - 1)
                          /\ notes' =
                                IF OffTick > last[1]
                                THEN Append(notes,
                                            NoteEvent(last[1], OffTick, OffChannel,
                                                      OffNote, last[2]))
                                ELSE notes]_vars

\* on at 0, on at 5, off at 5, off at 8 for one key: the one note is (0, 8)
C22_OlderEntryClosed ==
    /\ pc = "parsed"
    /\ data = StackingFile(0, 5, 0, 3)
    /\ notes = <<NoteEvent(0, 8, 0, 60, 64)>>

----------------------------------------------------------------------------
(* The end of a track (SpecParse). *)

\* the open entries, each by the place of its key and its place in the stack
OpenEntries ==
    {p \in (1..Len(active)) \X (1..Len(track)) :
         p[2] <= Len(active[p[1]].stack)}

\* the note an open entry gives when it is closed at tick t
ClosedAt(p, t) ==
    NoteEvent(active[p[1]].stack[p[2]][1], t, active[p[1]].channel,
              active[p[1]].note, active[p[1]].stack[p[2]][2])

\* the next event of the track is the end-of-track meta-event, after a delta
\* time of one byte
EndOfTrackNext ==
    /\ pc = "event"
    /\ pos + 4 <= Len(track)
    /\ track[pos + 1] < 128
    /\ track[pos + 2] = 255
    /\ track[pos + 3] = 47
    /\ track[pos + 4] = 0

\* when the loop of a track has ended, the notes gain one note for every
\* open entry opened before the final tick, ending at the final tick, and
\* nothing else
ClosedAtFinalTick ==
    pc = "close" =>
        LET closing == {p \in OpenEntries : active[p[1]].stack[p[2]][1] < tick}
            added   == (Len(notes) + 1)..Len(notes')
        IN  /\ Len(notes') = Len(notes) + Cardinality(closing)
            /\ SubSeq(notes', 1, Len(notes)) = notes
            /\ \A p \in closing : \E k \in added : notes'[k] = ClosedAt(p, tick)
            /\ \A k \in added : \E p \in closing : notes'[k] = ClosedAt(p, tick)

\* C23: when the loop of a track ends, every entry still open is closed at
\* the final tick of the track and gives a note only if its duration is
\* positive; the next track starts with no open entry; the end-of-track
\* event ends the loop whatever follows it in the chunk; and the header of the
\* second track is read at the declared length of the first chunk
C23_TrackLifecycle ==
    /\ [][/\ ClosedAtFinalTick
          /\ (pc = "track" /\ pc' = "event") => active' = <<>>
          /\ EndOfTrackNext => (pc' = "close" /\ tick' = tick + track[pos + 1]
                                /\ notes' = notes /\ active' = active)]_vars
    /\ []((pc = "track" /\ track_index = 1) => offset = 22 + U32(data, 18))

\* two tracks: the first opens key 60 at ticks 0 and 2 and ends at tick 2,
\* the second holds a note-off of key 60 at tick 2; the one note is (0, 2)
C23_OpenNoteStaysInTrack ==
    /\ pc = "parsed"
    /\ data = Header(2, 96) \o Chunk(<<0, 144, 60, 64, 2, 144, 60, 64>>)
                            \o Chunk(<<2, 128, 60, 0>>)
    /\ notes = <<NoteEvent(0, 2, 0, 60, 64)>>

\* a note-on after the end-of-track event of its chunk has given no note and
\* no open entry
C23_AfterEndOfTrack ==
    /\ pc = "close"
    /\ track = <<0, 255, 47, 0, 0, 144, 60, 64>>
    /\ active = <<>>

----------------------------------------------------------------------------
(* The rows and the ticks they stand at (Spec). *)

\* the absolute tick of row k: the waits of the rows up to it, added up
RECURSIVE TickOf(_, _)
TickOf(evs, k) == IF k = 0 THEN 0 ELSE TickOf(evs, k - 1) + evs[k][1]

RowTicks(evs) == {TickOf(evs, k) : k \in 1..Len(evs)}

\* the channels of the voices, voice_channels[:voices]
VoiceChannels == Slice(voice_channels, 0, args.voices)

\* the ticks at which a note of the channel of some voice starts
OnsetTicks ==
    {notes[i].start_tick : i \in {j \in 1..Len(notes) :
        \E v \in 1..Len(VoiceChannels) : notes[j].channel = VoiceChannels[v]}}

\* song.end_tick + max(0, tail_ticks), when the song has a final tick above 0
ClosingTicks ==
    IF song_end_tick > 0 THEN {song_end_tick + Max(0, args.tail_ticks)} ELSE {}

\* the places in song.tempos of the tempo changes at tick t
TemposAt(t) == {i \in 1..Len(tempos) : tempos[i].tick = t}

\* the BPM that survives at tick t: that of the last tempo change at t
SurvivingBpm(t) ==
    tempos[CHOOSE i \in TemposAt(t) : \A j \in TemposAt(t) : j <= i].bpm

\* C24: in fixed tempo mode every row has the tempo override 0 and stands at
\* the tick of an onset or at the closing tick; in track mode a row has a
\* tempo override other than 0 exactly when its tick is above 0 and is the
\* tick of a tempo change, the override is the BPM surviving at that tick,
\* and every tempo change at a tick above 0 has its row
C24_TempoOverrides ==
    Emitted =>
        IF args.tempo_mode = "fixed"
        THEN /\ \A k \in 1..Len(events) : events[k][2] = 0
             /\ RowTicks(events) \subseteq OnsetTicks \cup ClosingTicks
        ELSE /\ \A k \in 1..Len(events) :
                   LET t == TickOf(events, k)
                   IN  /\ events[k][2] # 0 <=> (t > 0 /\ TemposAt(t) # {})
                       /\ events[k][2] # 0 => events[k][2] = SurvivingBpm(t)
             /\ \A i \in 1..Len(tempos) :
                   tempos[i].tick > 0 => tempos[i].tick \in RowTicks(events)

\* track mode: a row that a tempo change alone put at tick 2, before the
\* closing tick, with the override 90
C24_TempoRowAlone ==
    /\ pc = "exit0"
    /\ args.tempo_mode = "track"
    /\ song_end_tick > 2
    /\ 2 \notin OnsetTicks
    /\ \E k \in 1..Len(events) : TickOf(events, k) = 2 /\ events[k][2] = 90

\* fixed mode: an onset at the tick of a tempo change, its row without override
C24_FixedOnsetAtTempoTick ==
    /\ pc = "exit0"
    /\ args.tempo_mode = "fixed"
    /\ TemposAt(2) # {}
    /\ 2 \in OnsetTicks
    /\ 2 \in RowTicks(events)

----------------------------------------------------------------------------
(* The closing tick (SpecPipeline). *)

\* main has the rows of the song it has just parsed
RowsOfSong == pc \in {"write", "exit0"} /\ caller = "main"

ClosingTick == song_end_tick + Max(0, args.tail_ticks)

\* C25: when the final tick of the parsed song is above 0, the waits of the
\* rows add up to the final tick plus max(0, tail_ticks), the last row stands
\* at that tick, and every onset of a row ends, by its duration, no later
C25_ClosingTick ==
    (RowsOfSong /\ song_end_tick > 0) =>
        /\ events # <<>>
        /\ TickOf(events, Len(events)) = ClosingTick
        /\ \A k \in 1..Len(events) : \A v \in 1..args.voices :
              events[k][1 + 2 * v] > 0 =>
                  TickOf(events, k) + events[k][2 + 2 * v] <= ClosingTick

\* a silent last row two ticks after the end of the last note, in a song of
\* two tracks with a tempo change
C25_SilentClosingRow ==
    /\ pc = "exit0"
    /\ args.tail_ticks = 2
    /\ track_count = 2
    /\ Len(events) >= 2
    /\ \A k \in 2..Len(events[Len(events)]) : events[Len(events)][k] = 0
    /\ TickOf(events, Len(events)) = song_end_tick + 2

----------------------------------------------------------------------------
(* The onsets in the rows (Spec). *)

\* the onset maps of the voices, as line 372 builds them
OnsetMaps ==
    OnsetsPerVoice(notes, args.voices, voice_channels, args.chord_policy)

\* the rows that stand at tick t
RowsAt(t) == {k \in 1..Len(events) : TickOf(events, k) = t}

\* slot v of row k: frequency and duration
SlotOf(k, v) == <<events[k][1 + 2 * v], events[k][2 + 2 * v]>>

\* C26: every onset of the onset map of a voice has exactly one row at its
\* tick, whose slot of that voice holds the frequency of the note, above 0,
\* and end tick minus start tick; the slot of the voice is (0, 0) in every
\* row whose tick is not in the onset map
C26_OnsetPreservation ==
    Emitted =>
        \A v \in 1..Len(OnsetMaps) :
            /\ \A t \in DOMAIN OnsetMaps[v] :
                  LET note == OnsetMaps[v][t]
                  IN  /\ Cardinality(RowsAt(t)) = 1
                      /\ midi_note_to_freq(note.note) > 0
                      /\ \A k \in RowsAt(t) :
                            SlotOf(k, v) = <<midi_note_to_freq(note.note),
                                             note.end_tick - note.start_tick>>
            /\ \A k \in 1..Len(events) :
                  TickOf(events, k) \notin DOMAIN OnsetMaps[v] =>
                      SlotOf(k, v) = <<0, 0>>

\* two voices: a first row at tick 0 with an onset of the second voice only,
\* and a later row with an onset of two ticks of the first voice
C26_OnsetsOfTwoVoices ==
    /\ pc = "exit0"
    /\ Len(OnsetMaps) = 2
    /\ Len(events) >= 2
    /\ events[1][1] = 0
    /\ SlotOf(1, 1) = <<0, 0>>
    /\ SlotOf(1, 2)[1] > 0
    /\ \E k \in 2..Len(events) : SlotOf(k, 1)[2] = 2

----------------------------------------------------------------------------
(* The measure markers and the DATA lines (Spec). *)

\* the bar the marker before line j names: the number of the last marker
\* line above line j
BarNamedBefore(lns, j) ==
    lns[CHOOSE m \in 1..(j - 1) :
            /\ lns[m].kind = "MARK"
            /\ \A n \in (m + 1)..(j - 1) : lns[n].kind # "MARK"].measure

\* the number of rows in the DATA lines above line j
RowsAbove(lns, j) == Len(DataRows(SubSeq(lns, 1, j - 1)))

\* C27: every row of a DATA line that follows the marker of bar k, and
\* comes before the next marker, has its tick in bar k: from (k - 1) times
\* ticks_per_bar up to, and not including, k times ticks_per_bar; so no row
\* of an earlier bar comes after the marker of a later bar
C27_MarkersDelimitBars ==
    Emitted =>
        LET ticks_per_bar == TicksPerBar(ppqn, time_signature)
        IN  \A j \in 1..Len(lines) :
              lines[j].kind = "DATA" =>
                \A i \in 1..Len(lines[j].rows) :
                   LET r == RowsAbove(lines, j) + i
                       k == BarNamedBefore(lines, j)
                   IN  r <= Len(events) =>
                          /\ (k - 1) * ticks_per_bar <= TickOf(events, r)
                          /\ TickOf(events, r) < k * ticks_per_bar

----------------------------------------------------------------------------
(* The rows in the text of the DATA lines (Spec). *)

\* the values of a sequence of rows, one after the other
RECURSIVE ValuesOf(_)
ValuesOf(rows) ==
    IF rows = <<>> THEN <<>> ELSE Head(rows) \o ValuesOf(Tail(rows))

\* the place of the line numbered 2000
FirstMarkerIndex == CHOOSE m \in 1..Len(lines) : lines[m].no = 2000

\* C28: the values of the DATA lines, taken in the order of the lines, are
\* the values of the rows in the order of their ticks and then those of the
\* sentinel row, each DATA line being its number, DATA and its values
\* separated by commas; the ticks of the rows ascend; and from the marker
\* numbered 2000 on there are only marker and DATA lines, their numbers
\* strictly increasing, with no DATA line above that marker
C28_RowOrderPreserved ==
    Emitted =>
        /\ ValuesOf(DataRows(lines))
              = ValuesOf(events) \o <<-1, 0>> \o [k \in 1..(2 * args.voices) |-> 0]
        /\ Len(DataRows(lines)) = Len(events) + 1
        /\ \A k \in 2..Len(events) : TickOf(events, k - 1) < TickOf(events, k)
        /\ \A j \in 1..Len(lines) :
              lines[j].kind = "DATA" =>
                  lines[j].text = ToString(lines[j].no) \o " DATA "
                                  \o Csv(ValuesOf(lines[j].rows))
        /\ \E m \in 1..Len(lines) : lines[m].no = 2000
        /\ lines[FirstMarkerIndex].kind = "MARK"
        /\ \A j \in 1..Len(lines) :
              IF j < FirstMarkerIndex
              THEN lines[j].kind \notin {"MARK", "DATA"}
              ELSE /\ lines[j].kind \in {"MARK", "DATA"}
                   /\ j > FirstMarkerIndex => lines[j].no > lines[j - 1].no

\* rows on DATA lines on both sides of a marker of a later bar
C28_RowsAroundMarker ==
    /\ pc = "exit0"
    /\ Len(events) >= 3
    /\ \E j \in (FirstMarkerIndex + 1)..(Len(lines) - 2) :
          /\ lines[j].kind = "DATA"
          /\ lines[j + 1].kind = "MARK"
          /\ lines[j + 2].kind = "DATA"
          /\ lines[j + 2].rows[1][1] >= 0

----------------------------------------------------------------------------
(* The length of a bar (SpecPipeline). *)

\* parse_midi has returned the song to main
SongReturned ==
    pc \in {"parsed", "select", "emit", "write", "exit0", "exit1", "raised",
            "uncaught"} /\ err \notin {"MidiParseError", "struct.error"}

\* C29: for every song parse_midi returns, ticks_per_bar is 1 or more, and
\* the conversion does not end in a ZeroDivisionError
C29_BarLengthPositive ==
    SongReturned =>
        /\ TicksPerBar(ppqn, time_signature) >= 1
        /\ err # "ZeroDivisionError"

----------------------------------------------------------------------------
(* The line numbers the player names (Spec). *)

\* the places of the lines numbered no
LinesNumbered(no) == {m \in 1..Len(lines) : lines[m].no = no}

\* C30: under every voice count, the line number named by RESTORE, by the
\* sentinel check IF W<0 THEN, by every IF Fv=0 THEN and by GOTO is the
\* number of a line of the program, and the line the sentinel check names is
\* the END statement
C30_JumpTargetsExist ==
    Emitted =>
        \A j \in 1..Len(lines) :
            LET st == Statement(lines[j])
            IN  /\ st.op \in {"RESTORE", "IFW", "IFF", "GOTO"} =>
                      LinesNumbered(st.target) # {}
                /\ st.op = "IFW" =>
                      \E m \in LinesNumbered(st.target) :
                          Statement(lines[m]).op = "END"

====
